---- MODULE Spec2Model ----
(***************************************************************************)
(* Model of python-pydrac (pydrac/__init__.py): the racadm command         *)
(* executor RacAdm.r_exec with its retry loop, and the change-tracked      *)
(* registry RacAdmRegistry with its committed and staged layers.           *)
(*                                                                         *)
(* Text is modelled as a sequence of lines, a line as a sequence of        *)
(* tokens: 'ERROR: LC062 x' is <<"ERROR:", "LC062", "x">> and a registry   *)
(* dump line 'key=value' is <<key, "=", value>>.                           *)
(***************************************************************************)
EXTENDS Integers, Sequences, FiniteSets, TLC

VARIABLES
    pc,            \* position of the r_exec call: "idle", "loop", "done"
    ssh,           \* RacAdm.ssh: "None" or "session"
    command,       \* r_exec argument
    retry,         \* r_exec local/argument, decremented by the loop
    retry0,        \* history: value of retry at call time
    ignoreerrors,  \* r_exec argument
    output,        \* r_exec local
    outcome,       \* history: how the r_exec call ended
    sent,          \* history: lines given to ssh.sendline by the last operation
    resps,         \* history: kind of each device answer to those lines
    committed,     \* RacAdmRegistry: the dict superclass content
    changes,       \* RacAdmRegistry.changes, in insertion order
    dev,           \* the device's registry
    op,            \* history: last registry operation and its arguments
    ret,           \* history: its result
    issued,        \* history: commands it passed to r_exec
    logins,        \* history: result of each pxssh login of the last r_exec
    _pdisks,       \* RacAdmStorage._pdisks: None or the parsed listing
    _vdisks,       \* RacAdmStorage._vdisks: None or the parsed listing
    devP,          \* the device's physical disks, in listing order
    devV,          \* the device's virtual disks, in listing order
    devJob,        \* the statuses the device will report for its job
    polled,        \* history: job statuses the last operation observed
    grouped,       \* history: last result of pdisks_by_size
    data,          \* RacAdmInventory.data: None or the parsed inventory
    devInv,        \* the text the device answers hwinventory with
    regs,          \* RacAdmBios: changes and content of its registry sets
    devB           \* the device's registries behind them

vars == <<pc, ssh, command, retry, retry0, ignoreerrors, output, outcome,
          sent, resps, committed, changes, dev, op, ret, issued, logins,
          _pdisks, _vdisks, devP, devV, devJob, polled, grouped,
          data, devInv, regs, devB>>

execVars == <<pc, ssh, command, retry, retry0, ignoreerrors, output, outcome,
              logins>>
regVars == <<committed, changes, dev, op, ret, issued>>
stoVars == <<_pdisks, _vdisks, devP, devV, devJob, polled, grouped,
             data, devInv, regs, devB>>

(***************************************************************************)
(* Bounds                                                                  *)
(***************************************************************************)
MaxRetry == 3      \* r_exec is called with retry in 0..MaxRetry
MaxBusy == 2       \* busy answers the device gives to one r_exec call
MaxBatch == 2      \* pairs in one bulk update
MaxPolls == 3      \* statuses a job goes through before it stays terminal
MaxDisks == 3      \* physical disks of the device
MaxVdisks == 1     \* virtual disks of the device
MaxLines == 5      \* lines of the device's inventory answer

(***************************************************************************)
(* Text helpers                                                            *)
(***************************************************************************)
RECURSIVE LStrip(_)
LStrip(text) ==
    IF text # <<>> /\ Head(text) = <<>> THEN LStrip(Tail(text)) ELSE text

RECURSIVE RStrip(_)
RStrip(text) ==
    IF text # <<>> /\ text[Len(text)] = <<>>
    THEN RStrip(SubSeq(text, 1, Len(text) - 1))
    ELSE text

\* str.strip() on the joined lines: leading and trailing blank lines go
Strip(text) == RStrip(LStrip(text))

\* output.splitlines()[1:]
SkipFirstLine(text) == IF text = <<>> THEN <<>> ELSE Tail(text)

\* str.startswith(prefix + ' '): the prefix tokens and something after them
StartsWith(text, prefix) ==
    /\ text # <<>>
    /\ Len(text[1]) > Len(prefix)
    /\ SubSeq(text[1], 1, Len(prefix)) = prefix

ERROR_LC062 == <<"ERROR:", "LC062">>
ERROR_ANY == <<"ERROR:">>

(***************************************************************************)
(* The device side of the transport: what ssh.before holds after a         *)
(* sendline/prompt exchange.  The first line is the echoed command.        *)
(***************************************************************************)
Echo(cmd) == <<"racadm">> \o cmd

BusyBody == << <<"ERROR:", "LC062", "export", "running">> >>
ErrorBody == << <<"ERROR:", "SWC0242", "invalid">> >>
OkBody == << <<"Object", "value", "modified">> >>

\* bodies the device may answer with, by kind; blank lines around the text
\* and an empty answer are possible
Bodies(kind) ==
    CASE kind = "busy" -> {BusyBody, <<<<>>>> \o BusyBody}
      [] kind = "error" -> {ErrorBody, ErrorBody \o <<<<>>>>}
      [] kind = "ok" -> {OkBody, <<>>, <<<<>>>> \o OkBody \o <<<<>>>>}

Kinds == {"busy", "error", "ok"}

Before(cmd, body) == <<Echo(cmd)>> \o body

(***************************************************************************)
(* RacAdm.login                                                            *)
(***************************************************************************)
\* the while loop of login: script holds the result of each pxssh login
RECURSIVE LoginLoop(_, _, _)
LoginLoop(n, script, attempts) ==
    IF n > 0 /\ script # <<>>
    THEN IF Head(script) = "ok"
         THEN [ssh |-> "session", raised |-> "", attempts |-> attempts + 1]
         ELSE IF Head(script) = "password refused" \/ n <= 0
              THEN [ssh |-> "None", raised |-> "RuntimeError",
                    attempts |-> attempts + 1]
              ELSE LoginLoop(n - 1, Tail(script), attempts + 1)
    ELSE \* loop left with self.ssh = None: self.ssh.setwinsize fails
         [ssh |-> "None", raised |-> "AttributeError", attempts |-> attempts]

LoginAttempts == 3

login(open, script) ==
    IF ~open
    THEN [ssh |-> "None", raised |-> "RuntimeError", attempts |-> 0]
    ELSE LoginLoop(LoginAttempts, script, 0)

\* scripts that login consumes entirely
RECURSIVE AuthScripts(_)
AuthScripts(n) ==
    IF n = 0 THEN {<<>>}
    ELSE {<<"ok">>, <<"password refused">>}
         \cup {<<"other">> \o s : s \in AuthScripts(n - 1)}

(***************************************************************************)
(* RacAdm.r_exec                                                           *)
(***************************************************************************)
\* the condition of the while loop
LoopCondInclusive(r) == r >= 0

LoopCond(r) == r > 0

\* one iteration of the while loop, after sendline/prompt returned `before`
LoopBodyBusyCounts(r, before) ==
    LET out == Strip(SkipFirstLine(before))
    IN IF StartsWith(out, ERROR_ANY)
       THEN [output |-> out, retry |-> r - 1, break |-> FALSE]
       ELSE [output |-> out, retry |-> r, break |-> TRUE]

LoopBodyBusyEnds(r, before) ==
    LET out == Strip(SkipFirstLine(before))
    IN IF StartsWith(out, ERROR_LC062)
       THEN [output |-> out, retry |-> r, break |-> TRUE]
       ELSE IF StartsWith(out, ERROR_ANY)
            THEN [output |-> out, retry |-> r - 1, break |-> FALSE]
            ELSE [output |-> out, retry |-> r, break |-> TRUE]

LoopBody(r, before) ==
    LET out == Strip(SkipFirstLine(before))
    IN IF StartsWith(out, ERROR_LC062)
       THEN [output |-> out, retry |-> r, break |-> FALSE]
       ELSE IF StartsWith(out, ERROR_ANY)
            THEN [output |-> out, retry |-> r - 1, break |-> FALSE]
            ELSE [output |-> out, retry |-> r, break |-> TRUE]

\* the statements after the loop
AfterLoopAlwaysRaise(out, ignore) ==
    IF StartsWith(out, ERROR_ANY)
    THEN [kind |-> "raise", exc |-> "RuntimeError", text |-> out]
    ELSE [kind |-> "return", exc |-> "", text |-> out]

AfterLoop(out, ignore) ==
    IF StartsWith(out, ERROR_ANY) /\ ~ignore
    THEN [kind |-> "raise", exc |-> "RuntimeError", text |-> out]
    ELSE [kind |-> "return", exc |-> "", text |-> out]

NoOutcome == [kind |-> "none", exc |-> "", text |-> <<>>]

Commands == {<<"getsel", "-o">>, <<"serveraction", "powerup">>}

\* r_exec is entered: login when there is no session, then output = ""
Call ==
    /\ pc = "idle"
    /\ \E cmd \in Commands, r \in 0..MaxRetry, ig \in BOOLEAN :
          /\ command' = cmd
          /\ retry' = r
          /\ retry0' = r
          /\ ignoreerrors' = ig
    /\ output' = <<>>
    /\ sent' = <<>>
    /\ resps' = <<>>
    /\ IF ssh = "None"
       THEN \E open \in BOOLEAN, script \in AuthScripts(LoginAttempts) :
               LET l == login(open, script)
               IN /\ ssh' = l.ssh
                  /\ logins' = SubSeq(script, 1, l.attempts)
                  /\ IF l.raised = ""
                     THEN pc' = "loop" /\ outcome' = NoOutcome
                     ELSE /\ pc' = "done"
                          /\ outcome' = [kind |-> "raise", exc |-> l.raised,
                                         text |-> <<>>]
       ELSE /\ ssh' = ssh
            /\ logins' = <<>>
            /\ pc' = "loop"
            /\ outcome' = NoOutcome
    /\ UNCHANGED <<regVars, stoVars>>

BusySoFar == Cardinality({i \in 1..Len(resps) : resps[i] = "busy"})

\* one pass of the loop: send the line, read the answer, classify it
Send ==
    /\ pc = "loop"
    /\ LoopCond(retry)
    /\ \E kind \in Kinds :
          /\ kind = "busy" => BusySoFar < MaxBusy
          /\ \E body \in Bodies(kind) :
                LET b == LoopBody(retry, Before(command, body))
                IN /\ sent' = Append(sent, Echo(command))
                   /\ resps' = Append(resps, kind)
                   /\ output' = b.output
                   /\ retry' = b.retry
                   /\ pc' = IF b.break THEN "after" ELSE "loop"
    /\ UNCHANGED <<ssh, command, retry0, ignoreerrors, outcome, logins>>
    /\ UNCHANGED <<regVars, stoVars>>

\* the loop is left (condition false or break): raise or return
Return ==
    /\ \/ pc = "after"
       \/ pc = "loop" /\ ~LoopCond(retry)
    /\ outcome' = AfterLoop(output, ignoreerrors)
    /\ pc' = "done"
    /\ UNCHANGED <<ssh, command, retry, retry0, ignoreerrors, output,
                   sent, resps, logins>>
    /\ UNCHANGED <<regVars, stoVars>>

\* the caller goes on and may call again
Done ==
    /\ pc = "done"
    /\ pc' = "idle"
    /\ UNCHANGED <<ssh, command, retry, retry0, ignoreerrors, output, outcome,
                   sent, resps, logins>>
    /\ UNCHANGED <<regVars, stoVars>>


(***************************************************************************)
(* r_exec as one call, over the answers the device gives to its sends.     *)
(* An answer is a record [kind, body].                                     *)
(***************************************************************************)
RECURSIVE RunLoop(_, _, _, _)
RunLoop(cmd, r, out, script) ==
    IF LoopCond(r) /\ script # <<>>
    THEN LET b == LoopBody(r, Before(cmd, Head(script).body))
         IN IF b.break
            THEN [output |-> b.output, retry |-> b.retry,
                  left |-> Tail(script), more |-> FALSE]
            ELSE RunLoop(cmd, b.retry, b.output, Tail(script))
    ELSE [output |-> out, retry |-> r, left |-> script, more |-> LoopCond(r)]

\* the script is what the call reads: all of it, and nothing after it
Consumes(cmd, r, script) ==
    LET l == RunLoop(cmd, r, <<>>, script)
    IN l.left = <<>> /\ ~l.more

r_exec(cmd, r, ignore, script) ==
    AfterLoop(RunLoop(cmd, r, <<>>, script).output, ignore)

DefaultRetry == 3

(***************************************************************************)
(* The device's registry and its answers to get and set                    *)
(***************************************************************************)
Registry == "BIOS.SysProfileSettings"
KeyOrder == <<"k1", "k2">>                 \* the keys the device reports
DevKeys == {KeyOrder[i] : i \in DOMAIN KeyOrder}
Keys == DevKeys \cup {"k3"}                \* the keys a caller may name
Values == {"a", "b"}

GetCommand == <<"get", Registry>>
SetCommand(k, v) == <<"set", Registry, k, v>>

HeaderLine == <<"[Key", "=", "iDRAC.Embedded.1]">>

\* the dump a get is answered with: the key header, then key=value lines
Dump(d) == <<HeaderLine>> \o [i \in DOMAIN KeyOrder |->
                                 <<KeyOrder[i], "=", d[KeyOrder[i]]>>]

Answer(d, cmd, kind) ==
    [kind |-> kind,
     body |-> CASE kind = "busy" -> BusyBody
                [] kind = "error" -> ErrorBody
                [] kind = "ok" -> IF cmd[1] = "get" THEN Dump(d) ELSE OkBody]

\* an accepted set changes the device's value
Accept(d, cmd, kind) ==
    IF kind = "ok" /\ cmd[1] = "set" /\ cmd[3] \in DOMAIN d
    THEN [d EXCEPT ![cmd[3]] = cmd[4]]
    ELSE d

\* the answer kinds the device gives to one r_exec call of the registry
DeviceScripts ==
    {<<"ok">>, <<"error", "ok">>, <<"error", "error", "error">>}

Failing == <<"error", "error", "error">>

\* the scripts an r_exec call with the default retry reads to their end
Scripted(d, cmd, kinds) == [i \in DOMAIN kinds |-> Answer(d, cmd, kinds[i])]

ReadScripts ==
    LET cmd == SetCommand(KeyOrder[1], "a")
    IN {s \in DeviceScripts :
           Consumes(cmd, DefaultRetry, Scripted(<<>>, cmd, s))}

\* the device refuses to set a key it does not have
ScriptsFor(cmd) ==
    IF cmd[1] = "set" /\ cmd[3] \notin DevKeys
    THEN ReadScripts \cap {Failing}
    ELSE ReadScripts

\* the transport while an operation runs: device, wire log, issued commands
Exchange(t, cmd, kinds) ==
    LET script == Scripted(t.dev, cmd, kinds)
        res == r_exec(cmd, DefaultRetry, FALSE, script)
    IN [t |-> [dev |-> Accept(t.dev, cmd, kinds[Len(kinds)]),
               issued |-> Append(t.issued, cmd),
               sent |-> t.sent \o [i \in DOMAIN kinds |-> Echo(cmd)],
               resps |-> t.resps \o kinds],
        res |-> res]

(***************************************************************************)
(* Insertion-ordered dict, as a sequence of <<key, value>> pairs           *)
(***************************************************************************)
DictKeys(d) == {d[i][1] : i \in DOMAIN d}
DictGet(d, k) == d[CHOOSE i \in DOMAIN d : d[i][1] = k][2]
DictSet(d, k, v) ==
    IF k \in DictKeys(d)
    THEN [i \in DOMAIN d |-> IF d[i][1] = k THEN <<k, v>> ELSE d[i]]
    ELSE Append(d, <<k, v>>)
DictDel(d, k) == SelectSeq(d, LAMBDA e : e[1] # k)

RECURSIVE DictUpdate(_, _)
DictUpdate(d, e) ==
    IF e = <<>> THEN d
    ELSE DictUpdate(DictSet(d, Head(e)[1], Head(e)[2]), Tail(e))

(***************************************************************************)
(* RacAdmRegistry                                                          *)
(***************************************************************************)
\* key, value = line.strip().split('=', 1)
SplitLine(line) ==
    LET i == CHOOSE j \in DOMAIN line :
                 line[j] = "=" /\ \A h \in 1..(j - 1) : line[h] # "="
    IN <<line[i - 1], line[i + 1]>>

\* the header line is skipped; a later line for a key overwrites an earlier
_output_to_dict(out) ==
    LET lines == SkipFirstLine(out)
        ks == {SplitLine(lines[i])[1] : i \in DOMAIN lines}
    IN [k \in ks |->
           LET last == CHOOSE i \in DOMAIN lines :
                          /\ SplitLine(lines[i])[1] = k
                          /\ \A j \in DOMAIN lines :
                                SplitLine(lines[j])[1] = k => j <= i
           IN SplitLine(lines[last])[2]]

Returned(v) == [kind |-> "return", val |-> v]
Raised(e) == [kind |-> "raise", val |-> e]

Op(name, k, v, batch) == [name |-> name, k |-> k, v |-> v, batch |-> batch]
Idle == Op("idle", "", "", <<>>)

NoTransport == /\ issued' = <<>>
               /\ sent' = <<>>
               /\ resps' = <<>>
               /\ dev' = dev

\* __getitem__
GetItemCommittedFirst(k) ==
    IF k \in DOMAIN committed THEN Returned(committed[k])
    ELSE IF k \in DictKeys(changes) THEN Returned(DictGet(changes, k))
    ELSE Raised("KeyError")

GetItem(k) ==
    IF k \in DictKeys(changes) THEN Returned(DictGet(changes, k))
    ELSE IF k \in DOMAIN committed THEN Returned(committed[k])
    ELSE Raised("KeyError")

__getitem__ ==
    /\ op = Idle
    /\ \E k \in Keys :
        /\ op' = Op("getitem", k, "", <<>>)
        /\ ret' = GetItem(k)
        /\ NoTransport
        /\ UNCHANGED <<committed, changes>>
        /\ UNCHANGED <<execVars, stoVars>>

\* __setitem__
SetItemNoEqualCheck(k, v) ==
    IF k \notin DOMAIN committed
    THEN [changes |-> changes, ret |-> Raised("KeyError")]
    ELSE [changes |-> DictSet(changes, k, v), ret |-> Returned("None")]

SetItem(k, v) ==
    IF k \notin DOMAIN committed
    THEN [changes |-> changes, ret |-> Raised("KeyError")]
    ELSE IF v = committed[k]
         THEN [changes |-> changes, ret |-> Returned("None")]
         ELSE [changes |-> DictSet(changes, k, v), ret |-> Returned("None")]

__setitem__ ==
    /\ op = Idle
    /\ \E k \in Keys, v \in Values :
        /\ op' = Op("setitem", k, v, <<>>)
        /\ changes' = SetItem(k, v).changes
        /\ ret' = SetItem(k, v).ret
        /\ NoTransport
        /\ UNCHANGED committed
        /\ UNCHANGED <<execVars, stoVars>>

\* __delitem__
__delitem__ ==
    /\ op = Idle
    /\ \E k \in Keys :
        /\ op' = Op("delitem", k, "", <<>>)
        /\ IF k \in DictKeys(changes)
           THEN changes' = DictDel(changes, k) /\ ret' = Returned("None")
           ELSE changes' = changes /\ ret' = Raised("KeyError")
        /\ NoTransport
        /\ UNCHANGED committed
        /\ UNCHANGED <<execVars, stoVars>>

\* pop(k) and pop(k, v)
pop ==
    /\ op = Idle
    /\ \E k \in Keys, v \in Values \cup {"_RaiseKeyError"} :
        /\ op' = Op("pop", k, v, <<>>)
        /\ IF k \in DictKeys(changes)
           THEN /\ changes' = DictDel(changes, k)
                /\ ret' = Returned(DictGet(changes, k))
           ELSE /\ changes' = changes
                /\ ret' = IF v = "_RaiseKeyError" THEN Raised("KeyError")
                          ELSE Returned(v)
        /\ NoTransport
        /\ UNCHANGED committed
        /\ UNCHANGED <<execVars, stoVars>>

\* setdefault
setdefault ==
    /\ op = Idle
    /\ \E k \in Keys, v \in Values :
        /\ op' = Op("setdefault", k, v, <<>>)
        /\ IF k \in DictKeys(changes)
           THEN changes' = changes /\ ret' = Returned(DictGet(changes, k))
           ELSE changes' = Append(changes, <<k, v>>) /\ ret' = Returned(v)
        /\ NoTransport
        /\ UNCHANGED committed
        /\ UNCHANGED <<execVars, stoVars>>

\* the items of the dict superclass, in the order the dump gave them
CommittedItems ==
    LET ks == SelectSeq(KeyOrder, LAMBDA k : k \in DOMAIN committed)
    IN [i \in DOMAIN ks |-> <<ks[i], committed[ks[i]]>>]

\* __iter__: chain(super().items(), self.changes.items()); what is yielded
\* is a (key, value) tuple <<k, v>>, where a bare key would be <<k>>
__iter__ ==
    /\ op = Idle
    /\ op' = Op("iter", "", "", <<>>)
    /\ ret' = Returned(CommittedItems \o changes)
    /\ NoTransport
    /\ UNCHANGED <<committed, changes>>
    /\ UNCHANGED <<execVars, stoVars>>

\* __contains__: itertools.chain objects have no __contains__ attribute
__contains__ ==
    /\ op = Idle
    /\ \E k \in Keys :
        /\ op' = Op("contains", k, "", <<>>)
        /\ ret' = Raised("AttributeError")
        /\ NoTransport
        /\ UNCHANGED <<committed, changes>>
        /\ UNCHANGED <<execVars, stoVars>>

\* copy: type(self)(self, _reg=..., _racadm=...) binds self to _reg and is
\* given _reg again by keyword; the call fails before __init__ runs
copy ==
    /\ op = Idle
    /\ op' = Op("copy", "", "", <<>>)
    /\ ret' = Raised("TypeError")
    /\ NoTransport
    /\ UNCHANGED <<committed, changes>>
    /\ UNCHANGED <<execVars, stoVars>>

\* update: the loop over the batch, then self.changes.update(changed_values)
RECURSIVE ChangedValues(_, _)
ChangedValues(batch, cv) ==
    IF batch = <<>> THEN [raised |-> FALSE, cv |-> cv]
    ELSE LET key == Head(batch)[1]
             val == Head(batch)[2]
         IN IF key \notin DOMAIN committed
            THEN [raised |-> TRUE, cv |-> cv]
            ELSE IF val = committed[key]
                 THEN ChangedValues(Tail(batch), cv)
                 ELSE ChangedValues(Tail(batch), DictSet(cv, key, val))

UpdateStagingAsItGoes(batch) ==
    LET c == ChangedValues(batch, <<>>)
    IN [changes |-> DictUpdate(changes, c.cv),
        ret |-> IF c.raised THEN Raised("KeyError") ELSE Returned("None")]

Update(batch) ==
    LET c == ChangedValues(batch, <<>>)
    IN IF c.raised
       THEN [changes |-> changes, ret |-> Raised("KeyError")]
       ELSE [changes |-> DictUpdate(changes, c.cv), ret |-> Returned("None")]

Pairs == Keys \X Values

RECURSIVE Batches(_)
Batches(n) ==
    IF n = 0 THEN {<<>>}
    ELSE Batches(n - 1)
         \cup {Append(b, p) : b \in {x \in Batches(n - 1) : Len(x) = n - 1},
                              p \in Pairs}

AllBatches == Batches(MaxBatch)

update ==
    /\ op = Idle
    /\ \E batch \in AllBatches :
        /\ op' = Op("update", "", "", batch)
        /\ changes' = Update(batch).changes
        /\ ret' = Update(batch).ret
        /\ NoTransport
        /\ UNCHANGED committed
        /\ UNCHANGED <<execVars, stoVars>>

\* write: the loop over self.changes.items(); scripts[i] answers the i-th set
RECURSIVE SetEach(_, _, _, _)
SetEach(t, ch, i, scripts) ==
    IF i > Len(ch) THEN [t |-> t, raised |-> FALSE]
    ELSE LET x == Exchange(t, SetCommand(ch[i][1], ch[i][2]), scripts[i])
         IN IF x.res.kind = "raise"
            THEN [t |-> x.t, raised |-> TRUE]
            ELSE SetEach(x.t, ch, i + 1, scripts)

\* __load: get the registry, clear, update from the parsed output
Load(t, kinds) ==
    LET x == Exchange(t, GetCommand, kinds)
    IN IF x.res.kind = "raise"
       THEN [t |-> x.t, raised |-> TRUE, committed |-> committed]
       ELSE [t |-> x.t, raised |-> FALSE,
             committed |-> _output_to_dict(x.res.text)]

WriteClearsOnFailure(scripts) ==
    LET t0 == [dev |-> dev, issued |-> <<>>, sent |-> <<>>, resps |-> <<>>]
    IN IF changes = <<>>
       THEN [t |-> t0, changes |-> changes, committed |-> committed,
             ret |-> Returned("False")]
       ELSE LET s == SetEach(t0, changes, 1, scripts)
            IN IF s.raised
               THEN [t |-> s.t, changes |-> <<>>, committed |-> committed,
                     ret |-> Raised("RuntimeError")]
               ELSE LET l == Load(s.t, scripts[Len(changes) + 1])
                    IN [t |-> l.t, changes |-> <<>>, committed |-> l.committed,
                        ret |-> IF l.raised THEN Raised("RuntimeError")
                                ELSE Returned("True")]

WriteKeepChanges(scripts) ==
    LET t0 == [dev |-> dev, issued |-> <<>>, sent |-> <<>>, resps |-> <<>>]
    IN IF changes = <<>>
       THEN [t |-> t0, changes |-> changes, committed |-> committed,
             ret |-> Returned("False")]
       ELSE LET s == SetEach(t0, changes, 1, scripts)
            IN IF s.raised
               THEN [t |-> s.t, changes |-> changes, committed |-> committed,
                     ret |-> Raised("RuntimeError")]
               ELSE LET l == Load(s.t, scripts[Len(changes) + 1])
                    IN [t |-> l.t, changes |-> changes,
                        committed |-> l.committed,
                        ret |-> IF l.raised THEN Raised("RuntimeError")
                                ELSE Returned("True")]

WriteAlwaysLoads(scripts) ==
    LET t0 == [dev |-> dev, issued |-> <<>>, sent |-> <<>>, resps |-> <<>>]
        s == SetEach(t0, changes, 1, scripts)
    IN IF s.raised
       THEN [t |-> s.t, changes |-> changes, committed |-> committed,
             ret |-> Raised("RuntimeError")]
       ELSE LET l == Load(s.t, scripts[Len(changes) + 1])
            IN [t |-> l.t, changes |-> <<>>, committed |-> l.committed,
                ret |-> IF l.raised THEN Raised("RuntimeError")
                        ELSE Returned("True")]

Write(scripts) ==
    LET t0 == [dev |-> dev, issued |-> <<>>, sent |-> <<>>, resps |-> <<>>]
    IN IF changes = <<>>
       THEN [t |-> t0, changes |-> changes, committed |-> committed,
             ret |-> Returned("False")]
       ELSE LET s == SetEach(t0, changes, 1, scripts)
            IN IF s.raised
               THEN [t |-> s.t, changes |-> changes, committed |-> committed,
                     ret |-> Raised("RuntimeError")]
               ELSE LET l == Load(s.t, scripts[Len(changes) + 1])
                    IN [t |-> l.t, changes |-> <<>>, committed |-> l.committed,
                        ret |-> IF l.raised THEN Raised("RuntimeError")
                                ELSE Returned("True")]

write ==
    /\ op = Idle
    /\ \E scripts \in [1..(Len(changes) + 1) -> ReadScripts] :
        /\ \A i \in 1..Len(changes) :
              scripts[i] \in ScriptsFor(SetCommand(changes[i][1],
                                                   changes[i][2]))
        /\ LET w == Write(scripts)
           IN /\ op' = Op("write", "", "", <<>>)
              /\ changes' = w.changes
              /\ committed' = w.committed
              /\ ret' = w.ret
              /\ dev' = w.t.dev
              /\ issued' = w.t.issued
              /\ sent' = w.t.sent
              /\ resps' = w.t.resps
        /\ UNCHANGED <<execVars, stoVars>>

\* the caller has the result of the operation and goes on
Continue ==
    /\ op.name # "idle"
    /\ op' = Idle
    /\ ret' = Returned("None")
    /\ NoTransport
    /\ UNCHANGED <<committed, changes>>
    /\ UNCHANGED <<execVars, stoVars>>

(***************************************************************************)
(* The device side of jobs and storage                                     *)
(***************************************************************************)
Controller == "RAID.Integrated.1-1"
Units == {Controller, "BIOS.Setup.1-1"}
JobId(unit) == IF unit = Controller THEN "JID_1" ELSE "JID_2"

Terminal == {"Completed", "Failed"}

\* the statuses a job goes through, as successive views see them: at most
\* MaxPolls of them, the last one terminal
RECURSIVE StatusSeqs(_)
StatusSeqs(n) ==
    IF n = 0 THEN {<<>>}
    ELSE LET shorter == StatusSeqs(n - 1)
         IN shorter \cup {Append(q, st) : q \in shorter, st \in {"Running"} \cup Terminal}

JobScripts ==
    {q \in StatusSeqs(MaxPolls) : q # <<>> /\ q[Len(q)] \in Terminal}

CreateCommand(unit, now) ==
    <<"jobqueue", "create", unit>> \o (IF now THEN <<"--realtime">> ELSE <<>>)
ViewCommand(jid) == <<"jobqueue", "view", "-i">> \o jid

CreateBody(unit) ==
    << <<"RAC1024:", "Successfully", "scheduled", "a", "job.">>,
       <<"Verify", "the", "job", "status">>,
       <<"Commit", "JID", "=", JobId(unit)>> >>

JobView(jid, status) ==
    << <<"-----", "JOB", "-----">>,
       <<"[Job", "ID", "=">> \o jid \o <<"]">>,
       <<"Job", "Name", "=", "Configure:", Controller>>,
       <<"Status", "=", status>>,
       <<"Percent", "Complete", "=", "[100]">>,
       <<"----------">> >>

\* str.lower() on the words the device uses in keys
lower(w) ==
    CASE w = "Job" -> "job"
      [] w = "Name" -> "name"
      [] w = "Status" -> "status"
      [] w = "Percent" -> "percent"
      [] w = "Complete" -> "complete"
      [] w = "State" -> "state"
      [] w = "MediaType" -> "mediatype"
      [] w = "Size" -> "size"
      [] w = "Layout" -> "layout"
      [] OTHER -> w

\* disk keys of the device; a key is one word, its parts joined by ':'
PdKeys == <<"Disk.Bay.0:Enclosure.Internal.0-1:RAID.Integrated.1-1",
            "Disk.Bay.1:Enclosure.Internal.0-1:RAID.Integrated.1-1",
            "Disk.Bay.2:Enclosure.Internal.0-1:RAID.Slot.4-1",
            "Disk.Bay.3:Enclosure.Internal.0-1:RAID.Integrated.1-1",
            "Disk.Bay.4:Enclosure.Internal.0-1:RAID.Integrated.1-1">>
VdKeys == <<"Disk.Virtual.0:RAID.Integrated.1-1",
            "Disk.Virtual.1:RAID.Integrated.1-1",
            "Disk.Virtual.2:RAID.Integrated.1-1">>

\* str.split(':', 3) on a key
SplitColon(k) ==
    CASE k = PdKeys[1] ->
            <<"Disk.Bay.0", "Enclosure.Internal.0-1", "RAID.Integrated.1-1">>
      [] k = PdKeys[2] ->
            <<"Disk.Bay.1", "Enclosure.Internal.0-1", "RAID.Integrated.1-1">>
      [] k = PdKeys[3] ->
            <<"Disk.Bay.2", "Enclosure.Internal.0-1", "RAID.Slot.4-1">>
      [] k = PdKeys[4] ->
            <<"Disk.Bay.3", "Enclosure.Internal.0-1", "RAID.Integrated.1-1">>
      [] k = PdKeys[5] ->
            <<"Disk.Bay.4", "Enclosure.Internal.0-1", "RAID.Integrated.1-1">>
      [] k = VdKeys[1] -> <<"Disk.Virtual.0", "RAID.Integrated.1-1">>
      [] k = VdKeys[2] -> <<"Disk.Virtual.1", "RAID.Integrated.1-1">>
      [] k = VdKeys[3] -> <<"Disk.Virtual.2", "RAID.Integrated.1-1">>
      [] OTHER -> <<k>>

\* the sizes the device reports, and float() of them, in tenths
Sizes == {"100.9", "105", "110.5", "300", "1000"}
float(w) ==
    CASE w = "100.9" -> 1009
      [] w = "105" -> 1050
      [] w = "110.5" -> 1105
      [] w = "300" -> 3000
      [] w = "1000" -> 10000
      [] w = "1005" -> 10050
      [] w = "1009.5" -> 10095

\* int() of a number in tenths: truncation towards zero
int(x) == IF x >= 0 THEN x \div 10 ELSE 0 - ((0 - x) \div 10)

PdGet == <<"get", "pdisks", "-o", "-p", "Name,State,Status,MediaType,Size">>
VdGet == <<"get", "vdisks", "-o", "-p",
           "Name,State,Status,MediaType,Size,Layout">>

\* the listings: for each disk its key on a line, then its properties
RECURSIVE PdListing(_)
PdListing(disks) ==
    IF disks = <<>> THEN <<>>
    ELSE << <<Head(disks).key>>,
            <<"Name", "=", "Physical", "Disk">>,
            <<"State", "=", Head(disks).state>>,
            <<"Status", "=", "Ok">>,
            <<"MediaType", "=", "HDD">>,
            <<"Size", "=", Head(disks).size, "GB">> >>
         \o PdListing(Tail(disks))

RECURSIVE VdListing(_)
VdListing(disks) ==
    IF disks = <<>> THEN <<>>
    ELSE << <<Head(disks).key>>,
            <<"Name", "=", Head(disks).name>>,
            <<"State", "=", "Online">>,
            <<"Layout", "=", Head(disks).layout>> >>
         \o VdListing(Tail(disks))

\* the registry sets of RacAdmBios, in the order of self._registries
BiosRegistries ==
    <<"idrac.ipv4", "BIOS.BiosBootSettings", "BIOS.SysProfileSettings">>

RegIndex(reg) == CHOOSE i \in DOMAIN BiosRegistries : BiosRegistries[i] = reg

\* what the device answers with when it accepts a command
OkText(t, cmd) ==
    IF cmd = <<"raid">> \o PdGet THEN PdListing(t.devP)
    ELSE IF cmd = <<"raid">> \o VdGet THEN VdListing(t.devV)
    ELSE IF cmd = <<"hwinventory">> THEN t.devInv
    ELSE IF cmd[1] = "get" THEN Dump(t.devB[RegIndex(cmd[2])])
    ELSE IF cmd[1] = "jobqueue" /\ cmd[2] = "create" THEN CreateBody(cmd[3])
    ELSE IF cmd[1] = "jobqueue" /\ cmd[2] = "view" /\ t.devJob # <<>>
         THEN JobView(SubSeq(cmd, 4, Len(cmd)), Head(t.devJob))
         ELSE OkBody

FreeVdKey(vds) ==
    VdKeys[CHOOSE i \in DOMAIN VdKeys :
              /\ \A j \in DOMAIN vds : vds[j].key # VdKeys[i]
              /\ \A h \in 1..(i - 1) : \E j \in DOMAIN vds :
                    vds[j].key = VdKeys[h]]

\* what an accepted command changes on the device.  A created virtual disk
\* is listed from then on; each view moves the job to its next status.
SAccept(t, cmd) ==
    IF cmd[1] = "raid" /\ cmd[2] = "converttoraid"
    THEN [t EXCEPT !.devP = [i \in DOMAIN t.devP |->
                                IF t.devP[i].key = cmd[3]
                                THEN [t.devP[i] EXCEPT !.state = "Ready"]
                                ELSE t.devP[i]]]
    ELSE IF cmd[1] = "raid" /\ cmd[2] = "createvd"
                            /\ Len(t.devV) < Len(VdKeys)
    THEN [t EXCEPT !.devV = Append(t.devV, [key |-> FreeVdKey(t.devV),
                                            name |-> cmd[5],
                                            layout |-> cmd[7]])]
    ELSE IF cmd[1] = "raid" /\ cmd[2] = "deletevd"
    THEN [t EXCEPT !.devV = SelectSeq(t.devV, LAMBDA v : v.key # cmd[3])]
    ELSE IF cmd[1] = "raid" /\ cmd[2] = "clearconfig"
    THEN [t EXCEPT !.devP = [i \in DOMAIN t.devP |->
                                IF t.devP[i].state = "Foreign"
                                THEN [t.devP[i] EXCEPT !.state = "Ready"]
                                ELSE t.devP[i]]]
    ELSE IF cmd[1] = "raid" /\ cmd[2] = "resetconfig"
    THEN [t EXCEPT !.devV = <<>>]
    ELSE IF cmd[1] = "jobqueue" /\ cmd[2] = "view" /\ Len(t.devJob) > 1
    THEN [t EXCEPT !.devJob = Tail(t.devJob)]
    ELSE IF cmd[1] = "set" /\ cmd[3] \in DevKeys
    THEN [t EXCEPT !.devB[RegIndex(cmd[2])][cmd[3]] = cmd[4]]
    ELSE t

\* the answers to an operation of at most n calls: call number f is
\* answered with errors until it fails, every other call is accepted at once
Failures(n) ==
    {[f |-> 0]} \cup [f : 1..n]

\* body with x standing for the value of e, computed once
With(e, body(_)) == CHOOSE y \in {body(x) : x \in {e}} : TRUE

\* what a call gives back: the transport, the exception, the value
Gave(t, v) == [t |-> t, raised |-> "", val |-> v]
Threw(t, e) == [t |-> t, raised |-> e, val |-> <<>>]

\* one r_exec call of an operation, over the transport t
SExchange(t, cmd, r, ignore, sc) ==
    With(IF Len(t.issued) + 1 = sc.f THEN Failing ELSE <<"ok">>, LAMBDA kinds :
    With(RunLoop(cmd, r, <<>>,
                 [i \in DOMAIN kinds |->
                     [kind |-> kinds[i],
                      body |-> IF kinds[i] = "ok" THEN OkText(t, cmd)
                               ELSE ErrorBody]]), LAMBDA run :
    With(Len(kinds) - Len(run.left), LAMBDA read :
    With([t EXCEPT !.issued = Append(t.issued, cmd),
                   !.sent = t.sent \o [i \in 1..read |-> Echo(cmd)],
                   !.resps = t.resps \o SubSeq(kinds, 1, read)], LAMBDA t1 :
    With(IF read > 0 /\ kinds[read] = "ok" THEN SAccept(t1, cmd) ELSE t1,
         LAMBDA t2 :
    With(AfterLoop(run.output, ignore), LAMBDA res :
       IF res.kind = "raise" THEN Threw(t2, res.exc)
       ELSE Gave(t2, res.text)))))))

\* RacAdmStorage.r_exec: the command is prefixed with 'raid '
Raid(t, cmd, r, ignore, sc) == SExchange(t, <<"raid">> \o cmd, r, ignore, sc)

(***************************************************************************)
(* RacAdm.run_jobs and RacAdm.get_job                                      *)
(***************************************************************************)
\* line.split('=', 1), then key.lower().replace(' ', '_'): the key is kept
\* as its lower-case words
JobField(line) ==
    LET i == CHOOSE j \in DOMAIN line :
                 line[j] = "=" /\ \A h \in 1..(j - 1) : line[h] # "="
    IN <<[j \in 1..(i - 1) |-> lower(line[j])],
         SubSeq(line, i + 1, Len(line))>>

\* get_job over the text r_exec returned: the lines [2:-1] as a dict
get_job(text) ==
    LET lines == SubSeq(text, 3, Len(text) - 1)
    IN DictUpdate(<<>>, [i \in DOMAIN lines |-> JobField(lines[i])])

\* output.split('Commit JID = ')[1]: all that follows the marker
JidOf(text) ==
    LET i == CHOOSE j \in DOMAIN text :
                 /\ Len(text[j]) >= 3
                 /\ SubSeq(text[j], 1, 3) = <<"Commit", "JID", "=">>
        RECURSIVE Flat(_)
        Flat(ls) == IF ls = <<>> THEN <<>> ELSE Head(ls) \o Flat(Tail(ls))
    IN SubSeq(text[i], 4, Len(text[i])) \o Flat(SubSeq(text, i + 1, Len(text)))

\* while self.get_job(jid)['status'] not in ['Completed', 'Failed']
PollOnce(st) == FALSE
PollUntilTerminal(st) == \A w \in Terminal : st # <<w>>

RECURSIVE PollLoop(_, _, _)
PollLoop(t, jid, sc) ==
    With(SExchange(t, ViewCommand(jid), DefaultRetry, FALSE, sc), LAMBDA x :
       IF x.raised # "" THEN x
       ELSE With(DictGet(get_job(x.val), <<"status">>), LAMBDA st :
       With([x.t EXCEPT !.polled = Append(x.t.polled, st[1])], LAMBDA t1 :
          IF PollUntilTerminal(st) THEN PollLoop(t1, jid, sc)
          ELSE Gave(t1, jid))))

RunJobsNoWait(t, unit, now, wait, sc) ==
    With(SExchange(t, CreateCommand(unit, now), DefaultRetry, FALSE, sc),
         LAMBDA x :
       IF x.raised # "" THEN x ELSE Gave(x.t, JidOf(x.val)))

run_jobs(t, unit, now, wait, sc) ==
    With(SExchange(t, CreateCommand(unit, now), DefaultRetry, FALSE, sc),
         LAMBDA x :
       IF x.raised # "" THEN x
       ELSE With(JidOf(x.val), LAMBDA jid :
          IF wait THEN PollLoop(x.t, jid, sc) ELSE Gave(x.t, jid)))

\* the transport at the start of an operation
Transport ==
    [pd |-> _pdisks, vd |-> _vdisks,
     devP |-> devP, devV |-> devV, devJob |-> devJob,
     data |-> data, devInv |-> devInv, regs |-> regs, devB |-> devB,
     issued |-> <<>>, sent |-> <<>>, resps |-> <<>>, polled |-> <<>>]

(***************************************************************************)
(* RacAdmStorage                                                           *)
(***************************************************************************)
\* self._pdisks = None, self._vdisks = None
NoneList == [set |-> FALSE, val |-> <<>>]
Cached(l) == [set |-> TRUE, val |-> l]

\* _disks_to_obj over the lines left and the objects so far; a disk is a
\* dict whose values are word lists
RECURSIVE _disks_to_obj(_, _)
_disks_to_obj(lines, objects) ==
    IF lines = <<>> THEN [raised |-> "", objs |-> objects]
    ELSE LET line == Head(lines)
         IN IF line = <<>>
            THEN _disks_to_obj(Tail(lines), objects)
            ELSE IF \A j \in DOMAIN line : line[j] # "="
            THEN With(SplitColon(line[1]), LAMBDA dkey_data :
                 LET o == << <<"dkey", line>>, <<"disk", <<dkey_data[1]>> >> >>
                 IN IF Len(dkey_data) = 3
                    THEN _disks_to_obj(Tail(lines), Append(objects,
                            o \o << <<"enclosure", <<dkey_data[2]>> >>,
                                    <<"controller", <<dkey_data[3]>> >> >>))
                    ELSE IF Len(dkey_data) >= 2
                    THEN _disks_to_obj(Tail(lines), Append(objects,
                            Append(o, <<"controller", <<dkey_data[2]>> >>)))
                    ELSE [raised |-> "IndexError", objs |-> objects])
            ELSE IF Len(line) < 3 \/ objects = <<>>
                 THEN [raised |-> "IndexError", objs |-> objects]
                 ELSE _disks_to_obj(Tail(lines),
                         [objects EXCEPT ![Len(objects)] =
                             DictSet(@, lower(line[1]),
                                     SubSeq(line, 3, Len(line)))])

\* the listing command of the pdisks property and the parsing of its output
PdisksFetch(t, sc) ==
    With(Raid(t, PdGet, DefaultRetry, FALSE, sc), LAMBDA x :
       IF x.raised # "" THEN x
       ELSE With(_disks_to_obj(x.val, <<>>), LAMBDA o :
          IF o.raised # "" THEN Threw(x.t, o.raised)
          ELSE Gave([x.t EXCEPT !.pd = Cached(o.objs)], o.objs)))

PdisksNoCache(t, sc) == PdisksFetch(t, sc)

\* the pdisks property
Pdisks(t, sc) ==
    IF t.pd.set THEN Gave(t, t.pd.val) ELSE PdisksFetch(t, sc)

\* the vdisks property: a RuntimeError of the listing gives an empty list
Vdisks(t, sc) ==
    IF t.vd.set THEN Gave(t, t.vd.val)
    ELSE With(Raid(t, VdGet, DefaultRetry, FALSE, sc), LAMBDA x :
       IF x.raised # "" THEN Gave([x.t EXCEPT !.vd = Cached(<<>>)], <<>>)
       ELSE With(_disks_to_obj(x.val, <<>>), LAMBDA o :
          IF o.raised # "" THEN Threw(x.t, o.raised)
          ELSE Gave([x.t EXCEPT !.vd = Cached(o.objs)], o.objs)))

\* for known_size in disks: if int(size - known_size) < 10: size = known_size
\* (sizes in tenths, keys in units)
RECURSIVE Rebind(_, _)
Rebind(size, known_sizes) ==
    IF known_sizes = <<>> THEN size
    ELSE Rebind(IF int(size - 10 * Head(known_sizes)) < 10
                THEN 10 * Head(known_sizes) ELSE size,
                Tail(known_sizes))

\* the loop of pdisks_by_size: disks is the defaultdict, in insertion order
RECURSIVE BySize(_, _)
BySize(list, disks) ==
    IF list = <<>> THEN disks
    ELSE With(int(Rebind(float(DictGet(Head(list), "size")[1]),
                         [i \in DOMAIN disks |-> disks[i][1]])), LAMBDA key :
         With(DictSet(disks, key,
                      Append(IF key \in DictKeys(disks)
                             THEN DictGet(disks, key) ELSE <<>>,
                             Head(list))), LAMBDA added :
            BySize(Tail(list), added)))

pdisks_by_size(t, sc) ==
    With(Pdisks(t, sc), LAMBDA p :
       IF p.raised # "" THEN p ELSE Gave(p.t, BySize(p.val, <<>>)))

has_foreign_disks(t, sc) ==
    With(Pdisks(t, sc), LAMBDA p :
       IF p.raised # "" THEN p
       ELSE Gave(p.t, \E i \in DOMAIN p.val :
                         DictGet(p.val[i], "state") = <<"Foreign">>))

get_vdisk(t, name, sc) ==
    With(Vdisks(t, sc), LAMBDA v :
       IF v.raised # "" THEN v
       ELSE IF \E i \in DOMAIN v.val : DictGet(v.val[i], "name") = <<name>>
       THEN Gave(v.t, <<v.val[CHOOSE i \in DOMAIN v.val :
                               /\ DictGet(v.val[i], "name") = <<name>>
                               /\ \A j \in 1..(i - 1) :
                                     DictGet(v.val[j], "name") # <<name>>]>>)
       ELSE Gave(v.t, <<>>))

select_pdisks(t, selection_method, sc) ==
    With(pdisks_by_size(t, sc), LAMBDA b :
       IF b.raised # "" THEN b
       ELSE IF b.val = <<>> THEN Threw(b.t, "IndexError")
       ELSE LET keys == DictKeys(b.val)   \* sorted(keys)[0] or [-1]
            IN Gave(b.t, DictGet(b.val,
                  IF selection_method = "smallest"
                  THEN CHOOSE k \in keys : \A h \in keys : k <= h
                  ELSE CHOOSE k \in keys : \A h \in keys : k >= h)))

converttoraid(t, pdkey, sc) ==
    Raid(t, <<"converttoraid", pdkey>>, DefaultRetry, FALSE, sc)

\* for disk in disks: if disk['state'] == 'Non-Raid': converttoraid
RECURSIVE ConvertEach(_, _, _)
ConvertEach(t, disks, sc) ==
    IF disks = <<>> THEN Gave(t, <<>>)
    ELSE IF DictGet(Head(disks), "state") = <<"Non-Raid">>
         THEN With(converttoraid(t, DictGet(Head(disks), "dkey")[1], sc),
                   LAMBDA c :
                 IF c.raised # "" THEN c
                 ELSE ConvertEach(c.t, Tail(disks), sc))
         ELSE ConvertEach(t, Tail(disks), sc)

\* the command with the defaults of self.defaults['vdisks']; the members
\* are joined by ','
CreatevdCommand(name, raid_type, disks) ==
    <<"createvd", DictGet(disks[1], "controller")[1], "-name", name,
      "-rl", raid_type, "-rp", "nra", "-wp", "wt", "-ss", "1M", "-pdkey">>
    \o [i \in DOMAIN disks |-> DictGet(disks[i], "dkey")[1]]

CreatevdSkipsConvert(t, name, raid_type, disks, sc) ==
    With([t EXCEPT !.vd = NoneList], LAMBDA t1 :
       IF disks = <<>> THEN Threw(t1, "IndexError")
       ELSE Raid(t1, CreatevdCommand(name, raid_type, disks),
                 DefaultRetry, FALSE, sc))

createvd(t, name, raid_type, disks, sc) ==
    With(ConvertEach(t, disks, sc), LAMBDA c :
       IF c.raised # "" THEN c
       ELSE With([c.t EXCEPT !.vd = NoneList], LAMBDA t1 :
          IF disks = <<>> THEN Threw(t1, "IndexError")
          ELSE Raid(t1, CreatevdCommand(name, raid_type, disks),
                    DefaultRetry, FALSE, sc)))

deletevd(t, vdkey, sc) ==
    Raid([t EXCEPT !.vd = NoneList], <<"deletevd", vdkey>>,
         DefaultRetry, FALSE, sc)

assign_hotspare(t, vdkey, pdkey, sc) ==
    Raid(t, <<"hotspare", pdkey, "-assign", "yes", "-type", "dhs",
              "-vdkey", vdkey>>, DefaultRetry, FALSE, sc)

destroy_storage_configuration(t, controller, sc) ==
    With(has_foreign_disks(t, sc), LAMBDA f :
       IF f.raised # "" THEN f
       ELSE With(IF f.val
                 THEN Raid(f.t, <<"clearconfig", controller>>, 1, TRUE, sc).t
                 ELSE f.t, LAMBDA t1 :
       With(Raid(t1, <<"resetconfig", controller>>, DefaultRetry, FALSE, sc),
            LAMBDA r :
          IF r.raised # "" THEN r
          ELSE With(run_jobs(r.t, controller, TRUE, TRUE, sc), LAMBDA j :
             IF j.raised # "" THEN j ELSE Gave(j.t, <<>>)))))

\* list[:n]
Slice(list, n) == SubSeq(list, 1, IF n < Len(list) THEN n ELSE Len(list))

set_profile_default(t, sc) ==
    With(select_pdisks(t, "smallest", sc), LAMBDA s1 :
       IF s1.raised # "" THEN s1 ELSE
    With(select_pdisks(s1.t, "largest", sc), LAMBDA s2 :
       IF s2.raised # "" THEN s2 ELSE
    With(select_pdisks(s2.t, "largest", sc), LAMBDA s3 :
       IF s3.raised # "" THEN s3 ELSE
    LET system_disks == Slice(s1.val, 2)
        data_disks == Slice(s2.val, Len(s2.val) - 1)
        hspare == s3.val[Len(s3.val)]
        controller == DictGet(system_disks[1], "controller")[1]
    IN
    With(createvd(s3.t, "system", "r1", system_disks, sc), LAMBDA c1 :
       IF c1.raised # "" THEN c1 ELSE
    With(createvd(c1.t, "data", "r5", data_disks, sc), LAMBDA c2 :
       IF c2.raised # "" THEN c2 ELSE
    With(run_jobs(c2.t, controller, TRUE, TRUE, sc), LAMBDA j1 :
       IF j1.raised # "" THEN j1 ELSE
    With(get_vdisk([j1.t EXCEPT !.vd = NoneList], "data", sc),
         LAMBDA data_vd :
       IF data_vd.raised # "" THEN data_vd ELSE
       IF data_vd.val = <<>> THEN Threw(data_vd.t, "TypeError") ELSE
    With(assign_hotspare(data_vd.t, DictGet(data_vd.val[1], "dkey")[1],
                         DictGet(hspare, "dkey")[1], sc), LAMBDA a :
       IF a.raised # "" THEN a ELSE
    With(run_jobs(a.t, controller, TRUE, FALSE, sc), LAMBDA j2 :
       IF j2.raised # "" THEN j2 ELSE Gave(j2.t, <<>>))))))))))

set_profile_database(t, sc) ==
    With(select_pdisks(t, "smallest", sc), LAMBDA s1 :
       IF s1.raised # "" THEN s1 ELSE
    With(select_pdisks(s1.t, "largest", sc), LAMBDA s2 :
       IF s2.raised # "" THEN s2 ELSE
    With(select_pdisks(s2.t, "largest", sc), LAMBDA s3 :
       IF s3.raised # "" THEN s3 ELSE
    With(select_pdisks(s3.t, "largest", sc), LAMBDA s4 :
       IF s4.raised # "" THEN s4 ELSE
    LET system_disks == Slice(s1.val, 2)
        controller == DictGet(system_disks[1], "controller")[1]
        data_disks_a == Slice(s2.val, 2)
        data_disks_b == SubSeq(s3.val, 3, Len(s3.val) - 1)   \* [2:-1]
        hspare == s4.val[Len(s4.val)]
    IN
    With(createvd(s4.t, "system", "r1", system_disks, sc), LAMBDA c1 :
       IF c1.raised # "" THEN c1 ELSE
    With(createvd(c1.t, "logtemp", "r1", data_disks_a, sc), LAMBDA c2 :
       IF c2.raised # "" THEN c2 ELSE
    With(createvd(c2.t, "data", "r5", data_disks_b, sc), LAMBDA c3 :
       IF c3.raised # "" THEN c3 ELSE
    With(run_jobs(c3.t, controller, TRUE, TRUE, sc), LAMBDA j1 :
       IF j1.raised # "" THEN j1 ELSE
    With(get_vdisk([j1.t EXCEPT !.vd = NoneList], "data", sc),
         LAMBDA data_vd :
       IF data_vd.raised # "" THEN data_vd ELSE
       IF data_vd.val = <<>> THEN Threw(data_vd.t, "TypeError") ELSE
    With(assign_hotspare(data_vd.t, DictGet(data_vd.val[1], "dkey")[1],
                         DictGet(hspare, "dkey")[1], sc), LAMBDA a :
       IF a.raised # "" THEN a ELSE
    With(run_jobs(a.t, controller, TRUE, FALSE, sc), LAMBDA j2 :
       IF j2.raised # "" THEN j2 ELSE Gave(j2.t, <<>>))))))))))))

(***************************************************************************)
(* RacAdmBios                                                              *)
(***************************************************************************)
\* write of registry set i: the loop over self.changes.items() from the
\* n-th staged pair on
RECURSIVE RegSetEach(_, _, _, _)
RegSetEach(t, i, n, sc) ==
    IF n > Len(t.regs[i].changes) THEN Gave(t, <<>>)
    ELSE With(SExchange(t, <<"set", BiosRegistries[i],
                              t.regs[i].changes[n][1],
                              t.regs[i].changes[n][2]>>,
                        DefaultRetry, FALSE, sc), LAMBDA x :
            IF x.raised # "" THEN x ELSE RegSetEach(x.t, i, n + 1, sc))

\* RacAdmRegistry.write of registry set i
RegWrite(t, i, sc) ==
    IF t.regs[i].changes = <<>> THEN Gave(t, "False")
    ELSE With(RegSetEach(t, i, 1, sc), LAMBDA s :
         IF s.raised # "" THEN s
         ELSE With(SExchange([s.t EXCEPT !.regs[i].changes = <<>>],
                             <<"get", BiosRegistries[i]>>,
                             DefaultRetry, FALSE, sc), LAMBDA x :
            IF x.raised # "" THEN x
            ELSE Gave([x.t EXCEPT !.regs[i].committed =
                                     _output_to_dict(x.val)], "True")))

\* True in result: the generator is consumed from registry set i on, up to
\* the first write() that returns True
RECURSIVE TrueInResult(_, _, _)
TrueInResult(t, i, sc) ==
    IF i > Len(BiosRegistries) THEN Gave(t, "False")
    ELSE With(RegWrite(t, i, sc), LAMBDA w :
         IF w.raised # "" \/ w.val = "True" THEN w
         ELSE TrueInResult(w.t, i + 1, sc))

commit(t, sc) ==
    With(TrueInResult(t, 1, sc), LAMBDA r :
       IF r.raised # "" THEN r
       ELSE IF r.val = "True"
       THEN With(run_jobs(r.t, "bios.setup.1-1", TRUE, FALSE, sc), LAMBDA j :
               IF j.raised # "" THEN j ELSE Gave(j.t, "True"))
       ELSE Gave(r.t, "False"))

(***************************************************************************)
(* RacAdmInventory                                                         *)
(***************************************************************************)
DashLine == <<"-------------------------------------------------------------">>

\* not len(line.strip()) or line.startswith('-------')
IsSeparator(line) == line = <<>> \/ line = DashLine

\* line.startswith('[InstanceID: ')
IsInstance(line) == Len(line) >= 2 /\ line[1] = "[InstanceID:"

\* line[13:-1]: what follows the marker, without the last character
InstanceOf(line) ==
    CASE line[2] = "System.Embedded.1]" -> "System.Embedded.1"
      [] line[2] = "CPU.Socket.1]" -> "CPU.Socket.1"

\* fields = line.split('=', 1), each side stripped
InvField(line) ==
    LET i == CHOOSE j \in DOMAIN line :
                 line[j] = "=" /\ \A h \in 1..(j - 1) : line[h] # "="
    IN <<SubSeq(line, 1, i - 1), SubSeq(line, i + 1, Len(line))>>

\* the loop of load over the lines left: result is self.data, instance and
\* cur are the locals instance and data
RECURSIVE ParseInventory(_, _, _, _)
ParseCommitsAtNext(lines, result, instance, cur) ==
    IF lines = <<>> THEN [raised |-> "", result |-> result]
    ELSE LET line == Head(lines)
             kept == IF cur.set /\ cur.val # <<>>
                     THEN DictSet(result, instance, cur.val)
                     ELSE result
         IN IF IsSeparator(line)
            THEN ParseInventory(Tail(lines), kept, "None", NoneList)
            ELSE IF IsInstance(line)
            THEN ParseInventory(Tail(lines), kept, InstanceOf(line),
                                Cached(<<>>))
            ELSE IF \A j \in DOMAIN line : line[j] # "="
            THEN [raised |-> "IndexError", result |-> result]
            ELSE IF ~cur.set
            THEN [raised |-> "TypeError", result |-> result]
            ELSE ParseInventory(Tail(lines), result, instance,
                    Cached(DictSet(cur.val, InvField(line)[1],
                                   InvField(line)[2])))

ParseInventory(lines, result, instance, cur) ==
    IF lines = <<>> THEN [raised |-> "", result |-> result]
    ELSE LET line == Head(lines)
         IN IF IsSeparator(line)
            THEN ParseInventory(Tail(lines),
                                IF cur.set /\ cur.val # <<>>
                                THEN DictSet(result, instance, cur.val)
                                ELSE result,
                                "None", NoneList)
            ELSE IF IsInstance(line)
            THEN ParseInventory(Tail(lines), result, InstanceOf(line),
                                Cached(<<>>))
            ELSE IF \A j \in DOMAIN line : line[j] # "="
            THEN [raised |-> "IndexError", result |-> result]
            ELSE IF ~cur.set
            THEN [raised |-> "TypeError", result |-> result]
            ELSE ParseInventory(Tail(lines), result, instance,
                    Cached(DictSet(cur.val, InvField(line)[1],
                                   InvField(line)[2])))

load(t, r, ignore, sc) ==
    IF t.data.set /\ t.data.val # <<>> THEN Gave(t, t.data.val)
    ELSE With(SExchange([t EXCEPT !.data = Cached(<<>>)], <<"hwinventory">>,
                        r, ignore, sc), LAMBDA x :
         IF x.raised # "" THEN x
         ELSE With(ParseInventory(x.val, <<>>, "None", NoneList), LAMBDA p :
            IF p.raised # ""
            THEN Threw([x.t EXCEPT !.data = Cached(p.result)], p.raised)
            ELSE Gave([x.t EXCEPT !.data = Cached(p.result)], p.result)))

\* [data for instance, data in self.data.items()
\*  if data['Device Type'] == device_type]
get_device_type(t, device_type, sc) ==
    With(load(t, DefaultRetry, FALSE, sc), LAMBDA l :
       IF l.raised # "" THEN l
       ELSE IF \E i \in DOMAIN l.val :
                  <<"Device", "Type">> \notin DictKeys(l.val[i][2])
       THEN Threw(l.t, "KeyError")
       ELSE Gave(l.t, SelectSeq([i \in DOMAIN l.val |-> l.val[i][2]],
                        LAMBDA d : DictGet(d, <<"Device", "Type">>)
                                      = <<device_type>>)))

(***************************************************************************)
(* The operations of RacAdmStorage as steps                                *)
(***************************************************************************)
\* the operation o ended as r says
StorageOp(o, r) ==
    /\ op' = o
    /\ ret' = IF r.raised # "" THEN Raised(r.raised) ELSE Returned(r.val)
    /\ _pdisks' = r.t.pd
    /\ _vdisks' = r.t.vd
    /\ devP' = r.t.devP
    /\ devV' = r.t.devV
    /\ devJob' = r.t.devJob
    /\ issued' = r.t.issued
    /\ sent' = r.t.sent
    /\ resps' = r.t.resps
    /\ polled' = r.t.polled
    /\ data' = r.t.data
    /\ regs' = r.t.regs
    /\ devB' = r.t.devB
    /\ UNCHANGED <<committed, changes, dev, devInv>>
    /\ UNCHANGED execVars

RunJobs ==
    /\ op = Idle
    /\ \E unit \in Units, now \in BOOLEAN, wait \in BOOLEAN,
          sc \in Failures(MaxPolls + 1) :
          \E r \in {run_jobs(Transport, unit, now, wait, sc)} :
             /\ sc.f <= Len(r.t.issued)
             /\ StorageOp(Op("run_jobs", unit, "", <<now, wait>>), r)
    /\ UNCHANGED grouped

ReadPdisks ==
    /\ op = Idle
    /\ \E sc \in Failures(1) :
          \E r \in {Pdisks(Transport, sc)} :
             /\ sc.f <= Len(r.t.issued)
             /\ StorageOp(Op("pdisks", "", "", <<>>), r)
    /\ UNCHANGED grouped

PdisksBySize ==
    /\ op = Idle
    /\ \E sc \in Failures(1) :
          \E r \in {pdisks_by_size(Transport, sc)} :
             /\ sc.f <= Len(r.t.issued)
             /\ StorageOp(Op("pdisks_by_size", "", "", <<>>), r)
             /\ grouped' = IF r.raised = "" THEN Cached(r.val) ELSE grouped

ReadVdisks ==
    /\ op = Idle
    /\ \E sc \in Failures(1) :
          \E r \in {Vdisks(Transport, sc)} :
             /\ sc.f <= Len(r.t.issued)
             /\ StorageOp(Op("vdisks", "", "", <<>>), r)
    /\ UNCHANGED grouped

ConvertToRaid ==
    /\ op = Idle
    /\ \E i \in DOMAIN devP, sc \in Failures(1) :
          \E r \in {converttoraid(Transport, devP[i].key, sc)} :
             StorageOp(Op("converttoraid", devP[i].key, "", <<>>), r)
    /\ UNCHANGED grouped

\* the disks a caller passes: some of the listed ones, in some order
Members(list) ==
    {<<list[i]>> : i \in DOMAIN list}
    \cup {<<list[p[1]], list[p[2]]>> :
             p \in {c \in (DOMAIN list) \X (DOMAIN list) : c[1] # c[2]}}

Volumes == {<<"system", "r1">>, <<"data", "r5">>}

CreateVd ==
    /\ op = Idle
    /\ _pdisks.set
    /\ Len(devV) < MaxVdisks
    /\ \E vol \in Volumes, disks \in Members(_pdisks.val) :
       \E sc \in Failures(Len(disks) + 1) :
          \E r \in {createvd(Transport, vol[1], vol[2], disks, sc)} :
             /\ sc.f <= Len(r.t.issued)
             /\ StorageOp(Op("createvd", vol[1], vol[2], disks), r)
    /\ UNCHANGED grouped

DeleteVd ==
    /\ op = Idle
    /\ \E i \in DOMAIN devV, sc \in Failures(1) :
          \E r \in {deletevd(Transport, devV[i].key, sc)} :
             StorageOp(Op("deletevd", devV[i].key, "", <<>>), r)
    /\ UNCHANGED grouped

AssignHotspare ==
    /\ op = Idle
    /\ \E i \in DOMAIN devV, j \in DOMAIN devP, sc \in Failures(1) :
          \E r \in {assign_hotspare(Transport, devV[i].key, devP[j].key, sc)} :
             StorageOp(Op("assign_hotspare", devV[i].key, devP[j].key, <<>>), r)
    /\ UNCHANGED grouped

DestroyStorageConfiguration ==
    /\ op = Idle
    /\ \E sc \in Failures(MaxPolls + 4) :
          \E r \in {destroy_storage_configuration(Transport, Controller, sc)} :
             /\ sc.f <= Len(r.t.issued)
             /\ StorageOp(Op("destroy_storage_configuration", Controller,
                             "", <<>>), r)
    /\ UNCHANGED grouped

SetProfileDefault ==
    /\ op = Idle
    /\ \E sc \in Failures(MaxPolls + 10) :
          \E r \in {set_profile_default(Transport, sc)} :
             /\ sc.f <= Len(r.t.issued)
             /\ StorageOp(Op("set_profile_default", "", "", <<>>), r)
    /\ UNCHANGED grouped

SetProfileDatabase ==
    /\ op = Idle
    /\ \E sc \in Failures(MaxPolls + 12) :
          \E r \in {set_profile_database(Transport, sc)} :
             /\ sc.f <= Len(r.t.issued)
             /\ StorageOp(Op("set_profile_database", "", "", <<>>), r)
    /\ UNCHANGED grouped

InventoryLoad ==
    /\ op = Idle
    /\ \E retry_ \in {1, DefaultRetry}, ignore \in BOOLEAN, sc \in Failures(1) :
          \E r \in {load(Transport, retry_, ignore, sc)} :
             /\ sc.f <= Len(r.t.issued)
             /\ StorageOp(Op("load", "", "", <<retry_, ignore>>), r)
    /\ UNCHANGED grouped

GetDeviceType ==
    /\ op = Idle
    /\ \E device_type \in {"System", "CPU"}, sc \in Failures(1) :
          \E r \in {get_device_type(Transport, device_type, sc)} :
             /\ sc.f <= Len(r.t.issued)
             /\ StorageOp(Op("get_device_type", device_type, "", <<>>), r)
    /\ UNCHANGED grouped

\* the caller resets the cache: inventory.data = None
ResetData ==
    /\ op = Idle
    /\ data.set
    /\ data' = NoneList
    /\ UNCHANGED <<regVars, execVars, sent, resps, grouped>>
    /\ UNCHANGED <<_pdisks, _vdisks, devP, devV, devJob, polled>>
    /\ UNCHANGED <<devInv, regs, devB>>

\* registry[k] = v on registry set i of RacAdmBios
BiosSetItem ==
    /\ op = Idle
    /\ \E i \in DOMAIN regs, k \in {KeyOrder[1], "k3"}, v \in Values :
          /\ op' = Op("setitem", k, v, <<i>>)
          /\ IF k \notin DOMAIN regs[i].committed
             THEN ret' = Raised("KeyError") /\ regs' = regs
             ELSE /\ ret' = Returned("None")
                  /\ regs' = IF v = regs[i].committed[k] THEN regs
                             ELSE [regs EXCEPT ![i].changes = DictSet(@, k, v)]
    /\ NoTransport
    /\ UNCHANGED <<committed, changes, execVars, grouped>>
    /\ UNCHANGED <<_pdisks, _vdisks, devP, devV, devJob, polled>>
    /\ UNCHANGED <<data, devInv, devB>>

BiosCommit ==
    /\ op = Idle
    /\ \E sc \in Failures(2 * Len(BiosRegistries) + 1) :
          \E r \in {commit(Transport, sc)} :
             /\ sc.f <= Len(r.t.issued)
             /\ StorageOp(Op("commit", "", "", <<>>), r)
    /\ UNCHANGED grouped

\* the device has a new job in its queue
JobQueued ==
    /\ op = Idle
    /\ devJob' \in JobScripts
    /\ UNCHANGED <<regVars, execVars, sent, resps>>
    /\ UNCHANGED <<_pdisks, _vdisks, devP, devV, polled, grouped>>
    /\ UNCHANGED <<data, devInv, regs, devB>>

\* the caller has the result of a job or storage operation and goes on
ContinueStorage ==
    /\ op.name # "idle"
    /\ op' = Idle
    /\ ret' = Returned("None")
    /\ NoTransport
    /\ polled' = <<>>
    /\ UNCHANGED <<committed, changes, dev>>
    /\ UNCHANGED <<_pdisks, _vdisks, devP, devV, devJob, grouped>>
    /\ UNCHANGED <<data, devInv, regs, devB>>
    /\ UNCHANGED execVars

(***************************************************************************)
(* Specifications                                                          *)
(***************************************************************************)
InitExecVars ==
    /\ pc = "idle"
    /\ command = <<>>
    /\ retry = 0
    /\ retry0 = 0
    /\ ignoreerrors = FALSE
    /\ output = <<>>
    /\ outcome = NoOutcome
    /\ logins = <<>>

\* a RacAdmStorage right after its construction, on a device without disks
InitStoVars ==
    /\ _pdisks = NoneList
    /\ _vdisks = NoneList
    /\ devP = <<>>
    /\ devV = <<>>
    /\ devJob = <<>>
    /\ polled = <<>>
    /\ grouped = NoneList
    /\ data = NoneList
    /\ devInv = <<>>
    /\ regs = <<>>
    /\ devB = <<>>

\* a registry set right after its construction: loaded over a live session
Init ==
    /\ InitExecVars
    /\ InitStoVars
    /\ ssh = "session"
    /\ dev \in [DevKeys -> Values]
    /\ committed = _output_to_dict(Dump(dev))
    /\ changes = <<>>
    /\ op = Op("init", "", "", <<>>)
    /\ ret = Returned("None")
    /\ issued = <<GetCommand>>
    /\ sent = <<Echo(GetCommand)>>
    /\ resps = <<"ok">>

Next ==
    \/ __getitem__
    \/ __setitem__
    \/ __delitem__
    \/ pop
    \/ setdefault
    \/ update
    \/ write
    \/ __iter__
    \/ __contains__
    \/ copy
    \/ Continue

Spec == Init /\ [][Next]_vars

\* a RacAdm client right after its construction: no session yet
InitExec ==
    /\ InitExecVars
    /\ InitStoVars
    /\ ssh = "None"
    /\ dev = [k \in DevKeys |-> "a"]
    /\ committed = dev
    /\ changes = <<>>
    /\ op = Op("init", "", "", <<>>)
    /\ ret = Returned("None")
    /\ issued = <<>>
    /\ sent = <<>>
    /\ resps = <<>>

NextExec ==
    \/ Call
    \/ Send
    \/ Return
    \/ Done

SpecExec == InitExec /\ [][NextExec]_vars

\* every blocking call of the loop returns (prompt has a timeout, sleep
\* ends), so a call that can take its next step takes it
SpecExecFair == SpecExec /\ WF_vars(Send) /\ WF_vars(Return)

\* the size orders of n disks: no two disks of the same size
Orders(n) ==
    {q \in [1..n -> Sizes] : \A i, j \in 1..n : i # j => q[i] # q[j]}

Disks(sizes, states) ==
    [i \in DOMAIN sizes |->
        [key |-> PdKeys[i], size |-> sizes[i], state |-> states[i]]]

\* a storage client right after its construction, over a live session; no
\* registry set is in use
InitClient ==
    /\ InitExecVars
    /\ ssh = "session"
    /\ dev = [k \in DevKeys |-> "a"]
    /\ committed = dev
    /\ changes = <<>>
    /\ op = Idle
    /\ ret = Returned("None")
    /\ issued = <<>>
    /\ sent = <<>>
    /\ resps = <<>>
    /\ _pdisks = NoneList
    /\ _vdisks = NoneList
    /\ devV = <<>>
    /\ polled = <<>>
    /\ grouped = NoneList

\* no inventory and no BIOS registry set is in use
InitSto ==
    /\ InitClient
    /\ data = NoneList
    /\ devInv = <<>>
    /\ regs = <<>>
    /\ devB = <<>>

\* a client with a job in the device's queue
InitJobs ==
    /\ InitSto
    /\ devP = <<>>
    /\ devJob \in JobScripts

NextJobs ==
    \/ RunJobs
    \/ JobQueued
    \/ ContinueStorage

SpecJobs == InitJobs /\ [][NextJobs]_vars

\* a storage client right after its construction, on a device whose disks
\* are listed in any order of their sizes
InitGroup ==
    /\ InitSto
    /\ devJob = <<"Completed">>
    /\ \E n \in 1..MaxDisks : \E q \in Orders(n) :
          \E first \in {"Ready", "Non-Raid"} :
             devP = Disks(q, [i \in 1..n |-> IF i = 1 THEN first
                                             ELSE "Ready"])

NextGroup ==
    \/ ReadPdisks
    \/ PdisksBySize
    \/ ConvertToRaid
    \/ ContinueStorage

SpecGroup == InitGroup /\ [][NextGroup]_vars

\* five disks of two kinds, and five disks of sizes far from each other
TwoKinds == {"100.9", "105", "1000", "1005", "1009.5"}

\* a storage client right after its construction, on a device with five
\* ready disks of distinct sizes and no virtual disk
InitProfile ==
    /\ InitSto
    /\ devJob \in {<<"Completed">>, <<"Running", "Completed">>}
    /\ \E kinds \in {TwoKinds, Sizes} :
          \E q \in [1..Cardinality(kinds) -> kinds] :
             /\ \A i, j \in DOMAIN q : i # j => q[i] # q[j]
             /\ devP = Disks(q, [i \in DOMAIN q |-> "Ready"])

NextProfile ==
    \/ SetProfileDefault
    \/ ContinueStorage

SpecProfile == InitProfile /\ [][NextProfile]_vars

\* two listings of the five disks of two kinds: the small disks first, and
\* the large disks first
Listings ==
    {<<"100.9", "105", "1000", "1005", "1009.5">>,
     <<"1000", "1005", "1009.5", "100.9", "105">>}

\* a storage client right after its construction, on a device with five
\* ready disks and a job that goes through any statuses
InitBarrier ==
    /\ InitSto
    /\ devJob \in JobScripts
    /\ \E q \in Listings : devP = Disks(q, [i \in DOMAIN q |-> "Ready"])

NextBarrier ==
    \/ SetProfileDefault
    \/ SetProfileDatabase
    \/ ContinueStorage

SpecBarrier == InitBarrier /\ [][NextBarrier]_vars

\* the lines of an inventory answer
InvLines ==
    {<<>>, DashLine,
     <<"[InstanceID:", "System.Embedded.1]">>,
     <<"[InstanceID:", "CPU.Socket.1]">>,
     <<"Device", "Type", "=", "System">>,
     <<"Model", "=", "PowerEdge", "R640">>}

RECURSIVE Texts(_)
Texts(n) ==
    IF n = 0 THEN {<<>>}
    ELSE LET shorter == Texts(n - 1)
         IN shorter \cup {Append(q, l) : q \in {x \in shorter : Len(x) = n - 1},
                                         l \in InvLines}

\* an inventory right after its construction, on a device that answers
\* hwinventory with any text of up to MaxLines lines
InitInventory ==
    /\ InitClient
    /\ devP = <<>>
    /\ devJob = <<"Completed">>
    /\ data = NoneList
    /\ devInv \in Texts(MaxLines)
    /\ regs = <<>>
    /\ devB = <<>>

NextInventory ==
    \/ InventoryLoad
    \/ GetDeviceType
    \/ ResetData
    \/ ContinueStorage

SpecInventory == InitInventory /\ [][NextInventory]_vars

\* a RacAdmBios right after its construction: three registry sets loaded
\* from the device, nothing staged
InitBios ==
    /\ InitClient
    /\ devP = <<>>
    /\ devJob = <<"Completed">>
    /\ data = NoneList
    /\ devInv = <<>>
    /\ devB = [i \in DOMAIN BiosRegistries |-> [k \in DevKeys |-> "a"]]
    /\ regs = [i \in DOMAIN BiosRegistries |->
                  [changes |-> <<>>, committed |-> devB[i]]]

NextBios ==
    \/ BiosSetItem
    \/ BiosCommit
    \/ ContinueStorage

SpecBios == InitBios /\ [][NextBios]_vars

AscendingSizes == <<"100.9", "105", "300", "1000", "110.5">>

\* a storage client right after its construction, on a device whose disks
\* are in any state
InitStorage ==
    /\ InitSto
    /\ devJob \in {<<"Completed">>, <<"Running", "Failed">>}
    /\ \E n \in 1..MaxDisks : \E states \in [1..n -> {"Ready", "Non-Raid", "Foreign"}] :
          devP = Disks(SubSeq(AscendingSizes, 1, n), states)

NextStorage ==
    \/ ReadPdisks
    \/ ReadVdisks
    \/ ConvertToRaid
    \/ CreateVd
    \/ DeleteVd
    \/ AssignHotspare
    \/ DestroyStorageConfiguration
    \/ ContinueStorage

SpecStorage == InitStorage /\ [][NextStorage]_vars

\* a storage client that lists the disks and creates and deletes virtual
\* disks over them; no job is run
InitCreate ==
    /\ InitSto
    /\ devJob = <<"Completed">>
    /\ \E n \in 1..MaxDisks : \E states \in [1..n -> {"Ready", "Non-Raid", "Foreign"}] :
          devP = Disks(SubSeq(AscendingSizes, 1, n), states)

NextCreate ==
    \/ ReadPdisks
    \/ ConvertToRaid
    \/ CreateVd
    \/ DeleteVd
    \/ ContinueStorage

SpecCreate == InitCreate /\ [][NextCreate]_vars

(***************************************************************************)
(* Properties of r_exec (checked under SpecExec)                           *)
(***************************************************************************)
Count(kind) == Cardinality({i \in 1..Len(resps) : resps[i] = kind})

\* the call ran its loop over a live session and has ended
Ended == pc = "done" /\ ssh = "session"

OnlyGenericErrors == \A i \in 1..Len(resps) : resps[i] = "error"

SameLineEachTime == \A i \in 1..Len(sent) : sent[i] = Echo(command)

FailedWith(text) ==
    outcome = [kind |-> "raise", exc |-> "RuntimeError", text |-> text]

ReturnedText(text) ==
    outcome = [kind |-> "return", exc |-> "", text |-> text]

\* C1 as stated: when every answer is a generic error, r_exec called with
\* retry = n (n >= 1) and ignoreerrors = False sends the command n + 1 times
\* and then raises.
C1_SendsRetryPlusOne ==
    (Ended /\ retry0 >= 1 /\ ~ignoreerrors /\ OnlyGenericErrors)
        => (Len(sent) = retry0 + 1 /\ FailedWith(ErrorBody))

\* C1 amended: when every answer is a generic error, r_exec called with
\* retry = n (n >= 1) and ignoreerrors = False sends the same command exactly
\* n times in total (2 times for retry = 2) and then raises RuntimeError
\* carrying the error text.
C1_SendsRetryTimes ==
    (Ended /\ retry0 >= 1 /\ ~ignoreerrors /\ OnlyGenericErrors)
        => /\ Len(sent) = retry0
           /\ Len(resps) = retry0
           /\ SameLineEachTime
           /\ FailedWith(ErrorBody)

C1_Witness ==
    /\ Ended
    /\ retry0 = 2
    /\ ~ignoreerrors
    /\ resps = <<"error", "error">>
    /\ Len(sent) = 2
    /\ outcome.kind = "raise"

BusyThenOk ==
    /\ resps # <<>>
    /\ resps[Len(resps)] = "ok"
    /\ \A i \in 1..(Len(resps) - 1) : resps[i] = "busy"

\* C2: busy answers never consume retry budget.  At every point of a call
\* the budget used up is the number of generic errors received; after k busy
\* answers and nothing else the loop still runs with the initial budget; and
\* a call answered by k busy answers and then a success has sent the same
\* command k + 1 times, returns the success text and has its budget intact.
C2_BusyKeepsBudget ==
    /\ (pc \in {"loop", "after"} \/ Ended) => retry = retry0 - Count("error")
    /\ (pc = "loop" /\ resps # <<>> /\ Count("busy") = Len(resps))
          => (retry = retry0 /\ LoopCond(retry))
    /\ (Ended /\ BusyThenOk)
          => /\ Len(sent) = Count("busy") + 1
             /\ SameLineEachTime
             /\ retry = retry0
             /\ outcome.kind = "return"
             /\ outcome.text \in {Strip(b) : b \in Bodies("ok")}

C2_Witness ==
    /\ Ended
    /\ retry0 = 1
    /\ resps = <<"busy", "busy", "ok">>
    /\ Len(sent) = 3
    /\ outcome.kind = "return"
    /\ retry = 1

\* C3: when the budget is exhausted and the last answer is error-prefixed,
\* r_exec raises RuntimeError carrying that text if ignoreerrors is False and
\* returns that text as it is if ignoreerrors is True; an answer without error
\* prefix ends the call at once and is returned, never raised.
C3_ExhaustedAndSuccess ==
    /\ (Ended /\ resps # <<>> /\ resps[Len(resps)] = "error")
          => /\ retry = 0
             /\ output = ErrorBody
             /\ ~ignoreerrors => FailedWith(ErrorBody)
             /\ ignoreerrors => ReturnedText(ErrorBody)
    /\ (pc \in {"loop", "after", "done"} /\ ssh = "session")
          => \A i \in 1..(Len(resps) - 1) : resps[i] # "ok"
    /\ (Ended /\ resps # <<>> /\ resps[Len(resps)] = "ok")
          => /\ outcome.kind = "return"
             /\ outcome.text = output
             /\ output \in {Strip(b) : b \in Bodies("ok")}

C3_Witness ==
    /\ Ended
    /\ ignoreerrors
    /\ retry0 = 2
    /\ retry = 0
    /\ resps = <<"error", "error">>
    /\ ReturnedText(ErrorBody)

(***************************************************************************)
(* Properties of RacAdmRegistry (checked under Spec)                       *)
(***************************************************************************)
Staged(d, k) == k \in DictKeys(d)

\* the staged entry of k is the same in d and e
SameEntry(d, e, k) ==
    /\ Staged(d, k) <=> Staged(e, k)
    /\ Staged(d, k) => DictGet(d, k) = DictGet(e, k)

\* every pair of the batch names a known key and its committed value
AllEqualCommitted(batch) ==
    \A i \in DOMAIN batch :
        /\ batch[i][1] \in DOMAIN committed
        /\ batch[i][2] = committed[batch[i][1]]

\* C4: an item write of the committed value of a known key, and a bulk write
\* whose values all equal the committed values, leave the staged map (any
\* earlier staged value included) and the committed map as they were and
\* send nothing; in any bulk write of known keys, a key that is only given
\* its committed value keeps its staged entry as it was.
C4_EqualWriteStagesNothing ==
    [][/\ (/\ op'.name = "setitem"
           /\ op'.k \in DOMAIN committed
           /\ op'.v = committed[op'.k])
          => (changes' = changes /\ committed' = committed
              /\ issued' = <<>> /\ sent' = <<>> /\ ret'.kind = "return")
       /\ (/\ op'.name = "update"
           /\ op'.batch # <<>>
           /\ AllEqualCommitted(op'.batch))
          => (changes' = changes /\ committed' = committed
              /\ issued' = <<>> /\ sent' = <<>> /\ ret'.kind = "return")
       /\ (/\ op'.name = "update"
           /\ \A i \in DOMAIN op'.batch : op'.batch[i][1] \in DOMAIN committed)
          => \A i \in DOMAIN op'.batch :
                (\A j \in DOMAIN op'.batch :
                    op'.batch[j][1] = op'.batch[i][1]
                       => op'.batch[j][2] = committed[op'.batch[i][1]])
                   => SameEntry(changes, changes', op'.batch[i][1])
      ]_vars

C4_Witness ==
    /\ op.name = "setitem"
    /\ op.k \in DOMAIN committed
    /\ op.v = committed[op.k]
    /\ Staged(changes, op.k)
    /\ DictGet(changes, op.k) # op.v
    /\ ret.kind = "return"

\* C5 as stated: no staged value equals the committed value of its key.
C5_NoStagedEqualsCommitted ==
    \A i \in DOMAIN changes :
        changes[i][1] \in DOMAIN committed
           => changes[i][2] # committed[changes[i][1]]

\* C6 as stated: every staged key is a key of the committed map, and no set
\* command is issued for a key the device did not report.
C6_StagedKeysKnown ==
    /\ DictKeys(changes) \subseteq DOMAIN committed
    /\ \A i \in DOMAIN issued :
          issued[i][1] = "set" => issued[i][3] \in DOMAIN committed

HasUnknownKey(batch) ==
    \E i \in DOMAIN batch : batch[i][1] \notin DOMAIN committed

\* C7: an item write to a key that is not in the committed map raises
\* KeyError and changes neither map; a bulk write with an unknown key at any
\* position raises KeyError and stages none of its pairs.
C7_UnknownKeyRejected ==
    [][/\ (op'.name = "setitem" /\ op'.k \notin DOMAIN committed)
          => (ret' = Raised("KeyError") /\ changes' = changes
              /\ committed' = committed)
       /\ (op'.name = "update" /\ HasUnknownKey(op'.batch))
          => (ret' = Raised("KeyError") /\ changes' = changes
              /\ committed' = committed)
      ]_vars

C7_Witness ==
    /\ op.name = "update"
    /\ Len(op.batch) = 2
    /\ op.batch[1][1] \in DOMAIN committed
    /\ op.batch[1][2] # committed[op.batch[1][1]]
    /\ ~Staged(changes, op.batch[1][1])
    /\ op.batch[2][1] \notin DOMAIN committed
    /\ ret = Raised("KeyError")

\* C8: a read of k returns the staged value of k if there is one, else the
\* committed value, and raises KeyError if k is in neither map; after an item
\* write of a value other than the committed one to a known key, a read of
\* that key gives the value written, whatever was staged before.
C8_ReadStagedFirst ==
    /\ op.name = "getitem" =>
          /\ \A i \in DOMAIN changes :
                changes[i][1] = op.k => ret = Returned(changes[i][2])
          /\ (~Staged(changes, op.k) /\ op.k \in DOMAIN committed)
                => ret = Returned(committed[op.k])
          /\ (~Staged(changes, op.k) /\ op.k \notin DOMAIN committed)
                => ret = Raised("KeyError")
    /\ (/\ op.name = "setitem"
        /\ op.k \in DOMAIN committed
        /\ op.v # committed[op.k])
          => (GetItem(op.k) = Returned(op.v) /\ ret.kind = "return")

C8_Witness ==
    /\ op.name = "getitem"
    /\ op.k \in DOMAIN committed
    /\ Staged(changes, op.k)
    /\ ret.kind = "return"
    /\ ret.val # committed[op.k]

\* C9: write() with nothing staged returns False, passes no command to
\* r_exec, sends nothing, and leaves the committed map (and the device) as
\* they were.
C9_EmptyWriteIsNoOp ==
    [][(op'.name = "write" /\ changes = <<>>)
          => /\ ret' = Returned("False")
             /\ issued' = <<>>
             /\ sent' = <<>>
             /\ committed' = committed
             /\ changes' = <<>>
             /\ dev' = dev
      ]_vars

C9_Witness ==
    /\ op.name = "write"
    /\ changes = <<>>
    /\ ret = Returned("False")
    /\ committed # dev

\* the commands write() has to issue for the staged map ch
SetCommands(ch) == [i \in DOMAIN ch |-> SetCommand(ch[i][1], ch[i][2])]

\* no r_exec call of the operation ran out of budget
NoCallFailed(r) ==
    ~\E i \in 1..(Len(r) - DefaultRetry + 1) :
        \A j \in i..(i + DefaultRetry - 1) : r[j] = "error"

RECURSIVE LeadingErrors(_)
LeadingErrors(r) ==
    IF r # <<>> /\ Head(r) = "error" THEN 1 + LeadingErrors(Tail(r)) ELSE 0

\* which r_exec call of the operation was the first to run out of budget
\* (0: none), read from the device's answers: a call ends with a success
\* or with DefaultRetry errors
RECURSIVE FirstFailed(_, _)
FirstFailed(r, call) ==
    IF r = <<>> THEN 0
    ELSE LET e == LeadingErrors(r)
         IN IF e >= DefaultRetry THEN call
            ELSE FirstFailed(SubSeq(r, e + 2, Len(r)), call + 1)

\* C11: when a set command of write() fails, write() raises; the commands
\* issued are the sets up to the failing one and nothing after it (no later
\* set, no get); the device keeps the values of the sets before it; the
\* staged and the committed map are as they were before the call.
C11_FailedWriteAborts ==
    [][LET j == FirstFailed(resps', 1)
       IN (op'.name = "write" /\ changes # <<>> /\ j \in 1..Len(changes))
             => /\ ret' = Raised("RuntimeError")
                /\ issued' = SubSeq(SetCommands(changes), 1, j)
                /\ changes' = changes
                /\ committed' = committed
                /\ \A k \in DOMAIN dev :
                      dev'[k] = IF \E i \in 1..(j - 1) : changes[i][1] = k
                                THEN DictGet(SubSeq(changes, 1, j - 1), k)
                                ELSE dev[k]
      ]_vars

C11_Witness ==
    /\ op.name = "write"
    /\ ret = Raised("RuntimeError")
    /\ Len(changes) = 2
    /\ issued = SetCommands(changes)
    /\ changes[2][1] \in DOMAIN dev
    /\ dev[changes[1][1]] = changes[1][2]
    /\ dev[changes[2][1]] # changes[2][2]
    /\ committed[changes[1][1]] # changes[1][2]

AllKeys == DOMAIN committed \cup DictKeys(changes)

\* C12 as stated: 'k in set' is true exactly for the keys of the committed
\* and the staged map, and iteration yields each of these keys exactly once.
C12_MembershipAndIteration ==
    /\ op.name = "contains"
          => ret = Returned(IF op.k \in AllKeys THEN "True" ELSE "False")
    /\ op.name = "iter"
          => /\ ret.kind = "return"
             /\ Len(ret.val) = Cardinality(AllKeys)
             /\ \A k \in AllKeys : \E i \in DOMAIN ret.val : ret.val[i] = <<k>>

\* C13 as stated: copy() succeeds (and returns a set with the same staged
\* map and a freshly loaded committed map).
C13_CopySucceeds ==
    op.name = "copy" => (ret.kind = "return" /\ issued = <<GetCommand>>)

\* C15 as stated: login makes at most 3 attempts; "password refused" ends
\* it at once with the authentication error; after 3 failed attempts login
\* fails with the authentication error (RuntimeError), the session stays
\* unset and nothing is sent on it.
C15_LoginFailsWithAuthError ==
    /\ Len(logins) <= LoginAttempts
    /\ (logins # <<>> /\ logins[Len(logins)] = "password refused")
          => (pc = "done" /\ outcome.exc = "RuntimeError" /\ ssh = "None"
              /\ sent = <<>>)
    /\ (Len(logins) = LoginAttempts
        /\ \A i \in DOMAIN logins : logins[i] = "other")
          => (pc = "done" /\ outcome.kind = "raise"
              /\ outcome.exc = "RuntimeError" /\ ssh = "None" /\ sent = <<>>)

(***************************************************************************)
(* Properties of run_jobs (checked under SpecJobs)                         *)
(***************************************************************************)
Views == SelectSeq(issued, LAMBDA c : c[2] = "view")

\* the statuses up to and with the first terminal one
RECURSIVE UpToTerminal(_)
UpToTerminal(q) ==
    IF q = <<>> THEN <<>>
    ELSE IF Head(q) \in Terminal THEN <<Head(q)>>
         ELSE <<Head(q)>> \o UpToTerminal(Tail(q))

\* C14: when run_jobs returns, it returns the job id of the create output;
\* with wait it has polled get_job once per status the job went through up
\* to its first terminal status, which is the last one it saw; without
\* wait it has not polled.
C14_PollsUntilTerminal ==
    [][(op'.name = "run_jobs" /\ ret'.kind = "return")
          => /\ ret'.val = <<JobId(op'.k)>>
             /\ IF op'.batch[2]
                THEN /\ polled' = UpToTerminal(devJob)
                     /\ Len(Views') = Len(polled')
                     /\ polled'[Len(polled')] \in Terminal
                ELSE polled' = <<>> /\ Views' = <<>>
      ]_vars

C14_Witness ==
    /\ op.name = "run_jobs"
    /\ op.batch[2]
    /\ ret = Returned(<<JobId(Controller)>>)
    /\ polled = <<"Running", "Running", "Completed">>
    /\ Len(Views) = 3

(***************************************************************************)
(* Properties of RacAdmStorage (checked under SpecGroup and SpecStorage)   *)
(***************************************************************************)
Tenths(disk) == float(DictGet(disk, "size")[1])

\* C17 as stated: in the result of pdisks_by_size, for every listing order,
\* the key of a bucket is the truncated size of its first disk, every
\* listed disk is in exactly one bucket, and every disk of a bucket has a
\* size less than 10 away from the bucket's key.
C17_BucketsWithinSpan ==
    (op.name = "pdisks_by_size" /\ ret.kind = "return")
       => LET b == ret.val
              Places(d) == {c \in (DOMAIN b) \X (1..MaxDisks) :
                               /\ c[2] <= Len(b[c[1]][2])
                               /\ b[c[1]][2][c[2]] = d}
          IN /\ \A i \in DOMAIN b : b[i][1] = int(Tenths(b[i][2][1]))
             /\ \A k \in DOMAIN _pdisks.val :
                   Cardinality(Places(_pdisks.val[k])) = 1
             /\ \A i \in DOMAIN b : \A j \in DOMAIN b[i][2] :
                   LET away == Tenths(b[i][2][j]) - 10 * b[i][1]
                   IN away < 100 /\ 0 - away < 100

\* C18: pdisks_by_size, called again over the cached listing, gives the
\* buckets it gave before (keys, disks and their order) and issues no
\* command, whatever the device lists by now.
C18_GroupingUsesCache ==
    [][(op'.name = "pdisks_by_size" /\ _pdisks.set /\ grouped.set)
          => /\ ret' = Returned(grouped.val)
             /\ issued' = <<>>
             /\ _pdisks' = _pdisks
      ]_vars

C18_Witness ==
    /\ op.name = "pdisks_by_size"
    /\ issued = <<>>
    /\ grouped.set
    /\ ret = Returned(grouped.val)
    /\ Len(grouped.val) = 2
    /\ \E i \in DOMAIN devP :
          <<devP[i].state>> # DictGet(_pdisks.val[i], "state")

Mutating == {"converttoraid", "createvd", "deletevd", "assign_hotspare",
             "destroy_storage_configuration"}

\* C19 as stated: when a mutating storage command has been issued, both
\* listing caches are invalid, so that the next read of either listing
\* issues its listing command again.
C19_MutationInvalidatesCaches ==
    (op.name \in Mutating /\ issued # <<>>)
       => (~_pdisks.set /\ ~_vdisks.set)

NonRaid(disks) ==
    SelectSeq(disks, LAMBDA d : DictGet(d, "state") = <<"Non-Raid">>)

Converts(disks) ==
    [i \in DOMAIN NonRaid(disks) |->
        <<"raid", "converttoraid", DictGet(NonRaid(disks)[i], "dkey")[1]>>]

\* C20: createvd sends one converttoraid command for each member disk in
\* state Non-Raid, in member order, and none for any other member; if one
\* of them fails nothing more is sent; otherwise one createvd command
\* follows them, on the controller of the first member and with the member
\* keys in the order given.
C20_ConvertsThenCreates ==
    [][op'.name = "createvd"
          => LET disks == op'.batch
                 cv == Converts(disks)
                 j == FirstFailed(resps', 1)
             IN IF j \in 1..Len(cv)
                THEN issued' = SubSeq(cv, 1, j) /\ ret'.kind = "raise"
                ELSE /\ Len(issued') = Len(cv) + 1
                     /\ SubSeq(issued', 1, Len(cv)) = cv
                     /\ LET c == issued'[Len(issued')]
                        IN /\ SubSeq(c, 1, 3) =
                                 <<"raid", "createvd",
                                   DictGet(disks[1], "controller")[1]>>
                           /\ c[5] = op'.k
                           /\ c[7] = op'.v
                           /\ SubSeq(c, 15, Len(c)) =
                                 [i \in DOMAIN disks |->
                                     DictGet(disks[i], "dkey")[1]]
      ]_vars

C20_Witness ==
    /\ op.name = "createvd"
    /\ ret.kind = "return"
    /\ Len(op.batch) = 2
    /\ Len(issued) = 2
    /\ DictGet(op.batch[1], "state") = <<"Ready">>
    /\ DictGet(op.batch[2], "state") = <<"Non-Raid">>
    /\ DictGet(op.batch[1], "controller") # DictGet(op.batch[2], "controller")
    /\ DictGet(op.batch[1], "dkey") = <<PdKeys[3]>>

(***************************************************************************)
(* Properties of set_profile_default (checked under SpecProfile)           *)
(***************************************************************************)
Creates == SelectSeq(issued, LAMBDA c : c[1] = "raid" /\ c[2] = "createvd")
Spares == SelectSeq(issued, LAMBDA c : c[1] = "raid" /\ c[2] = "hotspare")
MembersOf(c) == {c[i] : i \in 15..Len(c)}

\* the keys of the n smallest and of the largest of the device's disks
Below(i) == {j \in DOMAIN devP : float(devP[j].size) < float(devP[i].size)}
SmallestKeys(n) == {devP[i].key : i \in {j \in DOMAIN devP :
                                           Cardinality(Below(j)) < n}}
LargestKey == devP[CHOOSE i \in DOMAIN devP :
                      Cardinality(Below(i)) = Len(devP) - 1].key

\* C16 as stated: on five disks of distinct sizes, when no command fails,
\* set_profile_default issues exactly one createvd of level r1 over the two
\* smallest disks, one createvd of level r5 over two of the other three,
\* and one hotspare assignment of the largest disk; the three groups are
\* disjoint and cover the five disks.
C16_DefaultProfileGroups ==
    (op.name = "set_profile_default" /\ NoCallFailed(resps))
       => /\ ret.kind = "return"
          /\ Len(Creates) = 2
          /\ Len(Spares) = 1
          /\ Creates[1][7] = "r1"
          /\ MembersOf(Creates[1]) = SmallestKeys(2)
          /\ Creates[2][7] = "r5"
          /\ Cardinality(MembersOf(Creates[2])) = 2
          /\ MembersOf(Creates[2]) \cap SmallestKeys(2) = {}
          /\ Spares[1][3] = LargestKey
          /\ Spares[1][3] \notin MembersOf(Creates[2])
          /\ MembersOf(Creates[1]) \cup MembersOf(Creates[2])
                \cup {Spares[1][3]} = {devP[i].key : i \in DOMAIN devP}

(***************************************************************************)
(* Properties of the profiles (checked under SpecBarrier)                  *)
(***************************************************************************)
IsHotspare(c) == c[1] = "raid" /\ c[2] = "hotspare"
IsJobView(c) == c[1] = "jobqueue" /\ c[2] = "view"

\* C21 as stated: in a step of set_profile_default or set_profile_database,
\* every hotspare command comes after the job creation that follows all the
\* createvd commands, after views of that job of which the last one showed a
\* terminal status and every earlier one did not, and after a listing of
\* the virtual disks issued after the last view.
C21_HotspareAfterBarrier ==
    [][op'.name \in {"set_profile_default", "set_profile_database"} =>
       \A h \in DOMAIN issued' : IsHotspare(issued'[h]) =>
          \E c \in 1..(h - 1), v \in 1..(h - 1), g \in 1..(h - 1) :
             /\ c < v /\ v < g
             /\ issued'[c] = CreateCommand(Controller, TRUE)
             /\ \A i \in DOMAIN issued' :
                   (issued'[i][1] = "raid" /\ issued'[i][2] = "createvd")
                      => i < c
             /\ \A i \in 1..(h - 1) : IsJobView(issued'[i]) <=> (c < i /\ i <= v)
             /\ Len(polled') = v - c
             /\ polled'[v - c] \in Terminal
             /\ \A i \in 1..(v - c - 1) : polled'[i] \notin Terminal
             /\ issued'[g] = <<"raid">> \o VdGet]_vars

\* the database profile has sent its hotspare command after two views that
\* showed the job Running and one that showed it Failed
C21_Witness ==
    /\ op.name = "set_profile_database"
    /\ ret.kind = "return"
    /\ polled = <<"Running", "Running", "Failed">>
    /\ \E h \in DOMAIN issued : IsHotspare(issued[h])

(***************************************************************************)
(* Properties of destroy_storage_configuration (checked under SpecStorage) *)
(***************************************************************************)
ClearCommand == <<"raid", "clearconfig", Controller>>
ResetCommand == <<"raid", "resetconfig", Controller>>

\* C22 as stated: in a step of destroy_storage_configuration that returns,
\* clearconfig is among the commands exactly when a physical disk of the
\* device is Foreign when the operation starts; its line is sent at most
\* once, also when the answer is an error; resetconfig follows it at once,
\* and is the first command after the listing otherwise; the last status
\* polled is Completed or Failed.
C22_DestroySequence ==
    [][(op'.name = "destroy_storage_configuration" /\ ret'.kind = "return") =>
         /\ (\E i \in DOMAIN issued' : issued'[i] = ClearCommand)
               <=> (\E d \in DOMAIN devP : devP[d].state = "Foreign")
         /\ Cardinality({i \in DOMAIN sent' : sent'[i] = Echo(ClearCommand)}) <= 1
         /\ \A i \in DOMAIN issued' : issued'[i] = ClearCommand =>
               /\ i < Len(issued')
               /\ issued'[i + 1] = ResetCommand
         /\ \E i \in DOMAIN issued' : issued'[i] = ResetCommand
         /\ polled' # <<>>
         /\ polled'[Len(polled')] \in Terminal]_vars

(***************************************************************************)
(* Properties of RacAdmInventory (checked under SpecInventory)             *)
(***************************************************************************)
\* the text r_exec returns for hwinventory when the device accepts it
InvOut == Strip(devInv)

InstanceLines == {i \in DOMAIN InvOut : IsInstance(InvOut[i])}

\* the line that ends the block starting at line i: the first separator or
\* instance line after it, or the end of the text
BlockEnd(i) ==
    IF \E j \in (i + 1)..Len(InvOut) :
          IsSeparator(InvOut[j]) \/ IsInstance(InvOut[j])
    THEN CHOOSE j \in (i + 1)..Len(InvOut) :
            /\ IsSeparator(InvOut[j]) \/ IsInstance(InvOut[j])
            /\ \A h \in (i + 1)..(j - 1) :
                  ~IsSeparator(InvOut[h]) /\ ~IsInstance(InvOut[h])
    ELSE Len(InvOut) + 1

Terminated(i) ==
    BlockEnd(i) <= Len(InvOut) /\ IsSeparator(InvOut[BlockEnd(i)])

Attributes(i) ==
    DictUpdate(<<>>, [k \in 1..(BlockEnd(i) - i - 1) |-> InvField(InvOut[i + k])])

DistinctIds ==
    \A i, j \in InstanceLines :
        i # j => InstanceOf(InvOut[i]) # InstanceOf(InvOut[j])

\* a load that fetched and parsed the inventory has returned
Parsed == op.name = "load" /\ ret.kind = "return" /\ issued # <<>>

\* C23 as stated: when load has parsed a text whose instance ids are
\* distinct, an instance id is a key of the result exactly when its block
\* is followed by a blank line or a dashed separator, and its value is then
\* the block's Key = Value lines.
C23_CommittedOnSeparator ==
    (Parsed /\ DistinctIds) =>
       \A i \in InstanceLines :
          /\ Terminated(i) <=> InstanceOf(InvOut[i]) \in DictKeys(ret.val)
          /\ Terminated(i) =>
                DictGet(ret.val, InstanceOf(InvOut[i])) = Attributes(i)

\* C23 amended: an instance id is a key of the result exactly when its
\* block has at least one Key = Value line and is followed by a blank line
\* or a dashed separator, and its value is then the block's lines; a block
\* without lines and a block that is not followed by a separator are absent.
C23_NonEmptyCommittedOnSeparator ==
    (Parsed /\ DistinctIds) =>
       \A i \in InstanceLines :
          /\ (Terminated(i) /\ BlockEnd(i) > i + 1)
                <=> InstanceOf(InvOut[i]) \in DictKeys(ret.val)
          /\ (Terminated(i) /\ BlockEnd(i) > i + 1) =>
                DictGet(ret.val, InstanceOf(InvOut[i])) = Attributes(i)

\* a first block closed by the dashed line is in the result, a last block
\* with a line and nothing after it is not
C23_Witness ==
    /\ Parsed
    /\ InvOut = <<<<"[InstanceID:", "System.Embedded.1]">>,
                  <<"Device", "Type", "=", "System">>,
                  DashLine,
                  <<"[InstanceID:", "CPU.Socket.1]">>,
                  <<"Model", "=", "PowerEdge", "R640">> >>
    /\ ret.val = << <<"System.Embedded.1",
                      << <<<<"Device", "Type">>, <<"System">> >> >> >> >>

\* the cache holds what a load that returned has put there
Loaded ==
    /\ data.set
    /\ LET p == ParseInventory(InvOut, <<>>, "None", NoneList)
       IN p.raised = "" /\ data.val = p.result

\* C24 as stated: once a load has returned, a load or a device-type query
\* made before the caller resets the cache issues no command and leaves the
\* cached result as it is, and load returns that result, whatever it is.
C24_ComputedOnce ==
    [][(Loaded /\ op'.name \in {"load", "get_device_type"}) =>
          /\ issued' = <<>>
          /\ data' = data
          /\ (op'.name = "load" => ret' = Returned(data.val))]_vars

(***************************************************************************)
(* Properties of RacAdmBios (checked under SpecBios)                       *)
(***************************************************************************)
StagedSets == {i \in DOMAIN regs : regs[i].changes # <<>>}

\* C25 as stated: in a step of commit in which every answer is a success,
\* every registry set with staged changes is written (its registry is read
\* back) and no registry set has staged changes afterwards; the job for
\* bios.setup.1-1 is created and True is returned exactly when some
\* registry set had staged changes.
C25_CommitWritesAll ==
    [][(op'.name = "commit" /\ \A n \in DOMAIN resps' : resps'[n] = "ok") =>
          /\ \A i \in StagedSets :
                \E n \in DOMAIN issued' : issued'[n] = <<"get", BiosRegistries[i]>>
          /\ \A i \in DOMAIN regs' : regs'[i].changes = <<>>
          /\ (StagedSets # {})
                <=> (\E n \in DOMAIN issued' :
                        issued'[n] = CreateCommand("bios.setup.1-1", TRUE))
          /\ (StagedSets # {}) <=> ret' = Returned("True")
          /\ (StagedSets = {}) <=> ret' = Returned("False")]_vars

(***************************************************************************)
(* Termination of r_exec (checked under SpecExecFair)                      *)
(***************************************************************************)
\* C26: a call with retry = n >= 1 that receives at most MaxBusy busy
\* answers ends; when it has ended it has received at most n generic errors,
\* nothing after its first success, and has sent at most n plus the number
\* of busy answers lines, ending either at the first success or at the n-th
\* generic error; a busy answer leaves the loop running with the budget it
\* had, so that a call answered busy every time never ends.
C26_TerminatesUnlessBusyForever ==
    /\ (pc = "loop" /\ retry0 >= 1) ~> (pc = "done")
    /\ [](Ended /\ retry0 >= 1 =>
            /\ Count("error") <= retry0
            /\ Len(sent) <= retry0 + Count("busy")
            /\ \A i \in 1..(Len(resps) - 1) : resps[i] # "ok"
            /\ \/ resps[Len(resps)] = "ok"
               \/ resps[Len(resps)] = "error" /\ Count("error") = retry0)
    /\ [][(pc = "loop" /\ resps' = Append(resps, "busy"))
             => (pc' = "loop" /\ retry' = retry /\ LoopCond(retry'))]_vars

\* a call with retry = 2 has ended after two busy answers and two errors
C26_Witness ==
    /\ Ended
    /\ retry0 = 2
    /\ resps = <<"busy", "error", "busy", "error">>
    /\ Len(sent) = 4
    /\ outcome.kind = IF ignoreerrors THEN "return" ELSE "raise"
====
